---- MODULE Spec2Model ----
(***************************************************************************)
(* Model of the directive pipeline of phone_agent: the validator and the   *)
(* sanitizer (validation.py), the pydantic request models (models.py) and  *)
(* the single-action endpoint of the REST front end (api.py).              *)
(*                                                                         *)
(* Python values are records [t, n, cs, xs]:                               *)
(*   int      t = "int",   n = the value                                   *)
(*   bool     t = "bool",  n = 1 or 0                                      *)
(*   float    t = "float", n = twice the value (halves are representable)  *)
(*            t = "nan";   t = "inf", n = 1 or -1                          *)
(*   str      t = "str",   cs = the characters, one string per character   *)
(*   None     t = "None"                                                   *)
(*   list     t = "list",  xs = the items      tuple  t = "tuple"          *)
(* A dict is a function from its keys (strings) to values; a key that is   *)
(* absent is not in its DOMAIN.  Text produced by the program (messages)   *)
(* is a sequence of chunks: a literal of the source is one chunk, a        *)
(* formatted value contributes its characters.                             *)
(***************************************************************************)
EXTENDS Integers, Sequences, FiniteSets, Bags, TLC

VARIABLES
    action,      \* the directive candidate handed to the pipeline (a dict)
    pc,          \* position of the pipeline run
    sanitized,   \* the dict returned by sanitize_action
    sanitized2,  \* the dict returned by sanitize_action applied to sanitized
    result,      \* the ValidationResult of the last validate_action call
    result2,     \* the ValidationResult of a repeated validate_action call
    raised,      \* the exception that ended the run, "none" otherwise
    api_key,           \* config.api_key of the REST front end
    allowed_actions,   \* config.allowed_actions, the whitelist
    rate_limit_store,  \* client -> the times of its admitted requests
    now,               \* time.time(), in seconds
    executed,          \* the dict last handed to handler.execute
    status,            \* the HTTP status of the last response, 0 before any
    ppc,            \* position of the check_device_state call
    issued,         \* the run_adb_command calls of the probe, in order
    screen_state,   \* local of check_device_state
    lock_state,     \* local of check_device_state
    battery_level,  \* local of check_device_state
    current_app,    \* local of check_device_state
    state,          \* the DeviceState returned (or built)
    probe_raised,   \* the exception that left check_device_state, "none" otherwise
    max_steps,       \* configuration of the session
    retry_count,     \* configuration of the session
    session_status,  \* AgentSession.status
    step_count,      \* AgentSession.step_count
    retries,         \* retries used up in the current step
    feedback,        \* the error reported back to the model for the next attempt
    pending,         \* the directive waiting for a confirmation or a takeover
    dispatched,      \* the directives handed to the Action Executor, in order
    history,         \* the outcome of every step, in order
    signals,         \* the external decisions and signals supplied, in order
    last_error,      \* the last recorded error detail
    parse_input,   \* the text handed to parse_action, with the call it was written from
    parse_output,  \* what parse_action returned or raised
    jobs,          \* the calls handed to the thread pool that have not returned, a bag
    admitted,      \* client -> the times at which check_rate_limit let it through
    served,        \* the number of requests the mutating endpoints have received
    caller,        \* the client of the last request
    task_response, \* the TaskResponse of POST /task, <<>> before it is built
    max_attempts,  \* argument of retry
    delay,  \* argument of retry
    backoff,  \* argument of retry
    exceptions,  \* argument of retry: the exception types it catches
    wpc,  \* position of the wrapper call
    attempt,  \* loop variable of wrapper
    current_delay,  \* local of wrapper
    last_exception,  \* local of wrapper
    calls,  \* the outcome of every call of func, in order
    slept,  \* the arguments of the time.sleep calls, in order
    returned, \* what wrapper returned or raised
    xml_content,  \* the dump handed to parse_ui_tree
    tree,  \* the UITree parse_ui_tree returned, <<>> before the parse
    query,  \* the last search made on the tree
    found  \* what the last search returned

valVars == <<action, pc, sanitized, sanitized2, result, result2, raised>>

apiVars == <<api_key, allowed_actions, rate_limit_store, now, executed, status>>

probeVars ==
    <<ppc, issued, screen_state, lock_state, battery_level, current_app, state, probe_raised>>

loopVars ==
    <<max_steps, retry_count, session_status, step_count, retries, feedback, pending,
      dispatched, history, signals, last_error>>

parseVars == <<parse_input, parse_output>>

serveVars == <<jobs, admitted, served, caller>>

taskVars == <<task_response>>

retryVars == <<max_attempts, delay, backoff, exceptions, wpc, attempt, current_delay, last_exception, calls, slept, returned>>

treeVars == <<xml_content, tree, query, found>>

\* the variables an action of one component leaves alone
outsideVal == <<apiVars, probeVars, loopVars, parseVars, serveVars, taskVars, retryVars, treeVars>>
outsideApi == <<valVars, probeVars, loopVars, parseVars, serveVars, taskVars, retryVars, treeVars>>
outsideProbe == <<valVars, apiVars, loopVars, parseVars, serveVars, taskVars, retryVars, treeVars>>
outsideLoop == <<valVars, apiVars, probeVars, parseVars, serveVars, taskVars, retryVars, treeVars>>
outsideParse == <<valVars, apiVars, probeVars, loopVars, serveVars, taskVars, retryVars, treeVars>>
outsideServe == <<valVars, probeVars, loopVars, parseVars, taskVars, retryVars, treeVars>>
outsideTask == <<valVars, apiVars, probeVars, loopVars, parseVars, serveVars, retryVars, treeVars>>
outsideRetry == <<valVars, apiVars, probeVars, loopVars, parseVars, serveVars, taskVars, treeVars>>
outsideTree == <<valVars, apiVars, probeVars, loopVars, parseVars, serveVars, taskVars, retryVars>>

\* parse_action has not been called
ParseIdle ==
    /\ parse_input = <<>>
    /\ parse_output = <<>>

\* no request has reached the mutating endpoints
ServeIdle ==
    /\ jobs = EmptyBag
    /\ admitted = <<>>
    /\ served = 0
    /\ caller = ""

\* no session has been created
LoopIdle ==
    /\ max_steps = 1
    /\ retry_count = 0
    /\ session_status = "none"
    /\ step_count = 0
    /\ retries = 0
    /\ feedback = "none"
    /\ pending = <<>>
    /\ dispatched = <<>>
    /\ history = <<>>
    /\ signals = <<>>
    /\ last_error = "none"

\* no check_device_state call has been made
ProbeIdle ==
    /\ ppc = "idle"
    /\ issued = <<>>
    /\ screen_state = "unknown"
    /\ lock_state = "unknown"
    /\ battery_level = <<>>
    /\ current_app = <<>>
    /\ state = <<>>
    /\ probe_raised = "none"

\* POST /task has not answered
TaskIdle ==
    /\ task_response = <<>>

RetryIdle ==
    /\ max_attempts = 1
    /\ delay = 0
    /\ backoff = 1
    /\ exceptions = {}
    /\ wpc = "idle"
    /\ attempt = 0
    /\ current_delay = 0
    /\ last_exception = <<>>
    /\ calls = <<>>
    /\ slept = <<>>
    /\ returned = <<>>

TreeIdle ==
    /\ xml_content = <<>>
    /\ tree = <<>>
    /\ query = <<>>
    /\ found = <<>>

-----------------------------------------------------------------------------
(* Python values *)

PyInt(k) == [t |-> "int", n |-> k, cs |-> <<>>, xs |-> <<>>]
PyBool(b) == [t |-> "bool", n |-> IF b THEN 1 ELSE 0, cs |-> <<>>, xs |-> <<>>]
PyHalves(h) == [t |-> "float", n |-> h, cs |-> <<>>, xs |-> <<>>]
PyNaN == [t |-> "nan", n |-> 0, cs |-> <<>>, xs |-> <<>>]
PyInf(sign) == [t |-> "inf", n |-> sign, cs |-> <<>>, xs |-> <<>>]
PyStr(chars) == [t |-> "str", n |-> 0, cs |-> chars, xs |-> <<>>]
PyNone == [t |-> "None", n |-> 0, cs |-> <<>>, xs |-> <<>>]
PyList(items) == [t |-> "list", n |-> 0, cs |-> <<>>, xs |-> items]
PyTuple(items) == [t |-> "tuple", n |-> 0, cs |-> <<>>, xs |-> items]

\* isinstance(v, (int, float)): bool is a subclass of int
IsNumber(v) == v.t \in {"int", "bool", "float", "nan", "inf"}

\* type(v).__name__
TypeName(v) ==
    CASE v.t \in {"float", "nan", "inf"} -> "float"
      [] v.t = "None" -> "NoneType"
      [] OTHER -> v.t

\* v < k for a number v and an integer k (every comparison with NaN is false)
NumLess(v, k) ==
    CASE v.t \in {"int", "bool"} -> v.n < k
      [] v.t = "float" -> v.n < 2 * k
      [] v.t = "inf" -> v.n < 0
      [] OTHER -> FALSE

\* v > k for a number v and an integer k
NumGreater(v, k) ==
    CASE v.t \in {"int", "bool"} -> v.n > k
      [] v.t = "float" -> v.n > 2 * k
      [] v.t = "inf" -> v.n > 0
      [] OTHER -> FALSE

-----------------------------------------------------------------------------
(* Strings as character sequences *)

Digits == <<"0", "1", "2", "3", "4", "5", "6", "7", "8", "9">>

IsDigit(c) == \E i \in 1..10 : Digits[i] = c

DigitVal(c) == (CHOOSE i \in 1..10 : Digits[i] = c) - 1

UpperLetters ==
    <<"A", "B", "C", "D", "E", "F", "G", "H", "I", "J", "K", "L", "M",
      "N", "O", "P", "Q", "R", "S", "T", "U", "V", "W", "X", "Y", "Z">>

LowerLetters ==
    <<"a", "b", "c", "d", "e", "f", "g", "h", "i", "j", "k", "l", "m",
      "n", "o", "p", "q", "r", "s", "t", "u", "v", "w", "x", "y", "z">>

\* str.lower() on one character
LowerChar(c) ==
    IF \E i \in 1..26 : UpperLetters[i] = c
    THEN LowerLetters[CHOOSE i \in 1..26 : UpperLetters[i] = c]
    ELSE c

\* str.lower()
Lower(s) == [i \in 1..Len(s) |-> LowerChar(s[i])]

\* str.upper() on one character
UpperChar(c) ==
    IF \E i \in 1..26 : LowerLetters[i] = c
    THEN UpperLetters[CHOOSE i \in 1..26 : LowerLetters[i] = c]
    ELSE c

\* str.upper()
Upper(s) == [i \in 1..Len(s) |-> UpperChar(s[i])]

IsSpace(c) == c \in {" ", "\t", "\n"}

RECURSIVE LStrip(_)
LStrip(s) == IF s # <<>> /\ IsSpace(Head(s)) THEN LStrip(Tail(s)) ELSE s

RECURSIVE RStrip(_)
RStrip(s) ==
    IF s # <<>> /\ IsSpace(s[Len(s)]) THEN RStrip(SubSeq(s, 1, Len(s) - 1)) ELSE s

\* str.strip()
Strip(s) == RStrip(LStrip(s))

\* str.replace(old, ""): every non-overlapping occurrence, left to right
RECURSIVE RemoveAll(_, _)
RemoveAll(s, old) ==
    IF Len(s) < Len(old) THEN s
    ELSE IF SubSeq(s, 1, Len(old)) = old
         THEN RemoveAll(SubSeq(s, Len(old) + 1, Len(s)), old)
         ELSE <<Head(s)>> \o RemoveAll(Tail(s), old)

\* the decimal digits of a natural number
RECURSIVE NatChars(_)
NatChars(k) ==
    IF k < 10 THEN <<Digits[k + 1]>> ELSE NatChars(k \div 10) \o <<Digits[(k % 10) + 1]>>

\* str(k) for an int k
IntChars(k) == IF k < 0 THEN <<"-">> \o NatChars(-k) ELSE NatChars(k)

\* the value of a sequence of decimal digits
RECURSIVE DigitsVal(_)
DigitsVal(s) ==
    IF s = <<>> THEN 0
    ELSE 10 * DigitsVal(SubSeq(s, 1, Len(s) - 1)) + DigitVal(s[Len(s)])

AllDigits(s) == \A i \in 1..Len(s) : IsDigit(s[i])

-----------------------------------------------------------------------------
(* Python builtins used by the pipeline: int(), str(), float() *)

Chars_None == <<"N", "o", "n", "e">>
Chars_True == <<"T", "r", "u", "e">>
Chars_False == <<"F", "a", "l", "s", "e">>
Chars_nan == <<"n", "a", "n">>
Chars_inf == <<"i", "n", "f">>
Chars_infinity == <<"i", "n", "f", "i", "n", "i", "t", "y">>

\* int(float): truncation toward zero, on a value given in halves
TruncHalves(h) == IF h >= 0 THEN h \div 2 ELSE -((-h) \div 2)

\* int(str): optional surrounding whitespace, optional sign, decimal digits
IntOfChars(s) ==
    LET b == Strip(s)
        signed == b # <<>> /\ Head(b) \in {"+", "-"}
        d == IF signed THEN Tail(b) ELSE b
    IN  IF d # <<>> /\ AllDigits(d)
        THEN [ok |-> TRUE, v |-> IF signed /\ Head(b) = "-" THEN -DigitsVal(d) ELSE DigitsVal(d),
              exc |-> "none"]
        ELSE [ok |-> FALSE, v |-> 0, exc |-> "ValueError"]

\* int(v): [ok, v, exc]
IntOf(v) ==
    CASE v.t \in {"int", "bool"} -> [ok |-> TRUE, v |-> v.n, exc |-> "none"]
      [] v.t = "float" -> [ok |-> TRUE, v |-> TruncHalves(v.n), exc |-> "none"]
      [] v.t = "nan" -> [ok |-> FALSE, v |-> 0, exc |-> "ValueError"]
      [] v.t = "inf" -> [ok |-> FALSE, v |-> 0, exc |-> "OverflowError"]
      [] v.t = "str" -> IntOfChars(v.cs)
      [] OTHER -> [ok |-> FALSE, v |-> 0, exc |-> "TypeError"]

\* repr(float) of a value given in halves
HalvesChars(h) ==
    LET a == IF h < 0 THEN -h ELSE h
    IN  (IF h < 0 THEN <<"-">> ELSE <<>>) \o NatChars(a \div 2)
            \o <<".">> \o (IF a % 2 = 1 THEN <<"5">> ELSE <<"0">>)

RECURSIVE StrOf(_)
RECURSIVE ReprOf(_)
RECURSIVE JoinRepr(_)

\* ", ".join(repr(x) for x in items)
JoinRepr(items) ==
    IF items = <<>> THEN <<>>
    ELSE IF Len(items) = 1 THEN ReprOf(items[1])
    ELSE ReprOf(items[1]) \o <<",", " ">> \o JoinRepr(Tail(items))

\* str(v), also what an f-string puts for {v}
StrOf(v) ==
    CASE v.t = "int" -> IntChars(v.n)
      [] v.t = "bool" -> IF v.n = 1 THEN Chars_True ELSE Chars_False
      [] v.t = "float" -> HalvesChars(v.n)
      [] v.t = "nan" -> Chars_nan
      [] v.t = "inf" -> (IF v.n < 0 THEN <<"-">> ELSE <<>>) \o Chars_inf
      [] v.t = "str" -> v.cs
      [] v.t = "None" -> Chars_None
      [] v.t = "list" -> <<"[">> \o JoinRepr(v.xs) \o <<"]">>
      [] v.t = "tuple" ->
            <<"(">> \o JoinRepr(v.xs) \o (IF Len(v.xs) = 1 THEN <<",">> ELSE <<>>) \o <<")">>

\* repr(v): a str is quoted, everything else is as str(v)
ReprOf(v) == IF v.t = "str" THEN <<"'">> \o v.cs \o <<"'">> ELSE StrOf(v)

\* hash(v) raises TypeError for a list, and for a tuple that holds one
RECURSIVE Hashable(_)
Hashable(v) ==
    CASE v.t = "list" -> FALSE
      [] v.t = "tuple" -> \A i \in 1..Len(v.xs) : Hashable(v.xs[i])
      [] OTHER -> TRUE

RECURSIVE Pow10(_)
Pow10(k) == IF k <= 0 THEN 1 ELSE 10 * Pow10(k - 1)

\* the first index of s that holds a character of cset, 0 when there is none
FirstIndex(s, cset) ==
    IF \E i \in 1..Len(s) : s[i] \in cset
    THEN CHOOSE i \in 1..Len(s) : s[i] \in cset /\ \A j \in 1..(i - 1) : s[j] \notin cset
    ELSE 0

NoFloat == [ok |-> FALSE, kind |-> "none", neg |-> FALSE, m |-> 0, k |-> 0]

\* the unsigned decimal part of a float literal: digits, an optional point, an
\* optional exponent; the value is m / 10^k
DecimalOf(body, neg) ==
    LET ePos == FirstIndex(body, {"e", "E"})
        mant == IF ePos = 0 THEN body ELSE SubSeq(body, 1, ePos - 1)
        expo == IF ePos = 0 THEN <<>> ELSE SubSeq(body, ePos + 1, Len(body))
        eSigned == expo # <<>> /\ Head(expo) \in {"+", "-"}
        eDigits == IF eSigned THEN Tail(expo) ELSE expo
        dot == FirstIndex(mant, {"."})
        ip == IF dot = 0 THEN mant ELSE SubSeq(mant, 1, dot - 1)
        fp == IF dot = 0 THEN <<>> ELSE SubSeq(mant, dot + 1, Len(mant))
        wellFormed ==
            /\ Len(ip) + Len(fp) > 0
            /\ AllDigits(ip)
            /\ AllDigits(fp)
            /\ ePos = 0 \/ (eDigits # <<>> /\ AllDigits(eDigits))
    IN  IF ~wellFormed THEN NoFloat
        ELSE LET e == IF eSigned /\ Head(expo) = "-" THEN -DigitsVal(eDigits)
                      ELSE DigitsVal(eDigits)
                 sc == Len(fp) - e
             IN  [ok |-> TRUE, kind |-> "fin", neg |-> neg,
                  m |-> IF sc >= 0 THEN DigitsVal(ip \o fp)
                        ELSE DigitsVal(ip \o fp) * Pow10(-sc),
                  k |-> IF sc >= 0 THEN sc ELSE 0]

\* float(str): [ok, kind, neg, m, k]; ok = FALSE is ValueError.  Underscores
\* between digits, which float() also accepts, are not part of the inputs.
FloatOfChars(s) ==
    LET b == Strip(s)
        signed == b # <<>> /\ Head(b) \in {"+", "-"}
        neg == signed /\ Head(b) = "-"
        body == IF signed THEN Tail(b) ELSE b
    IN  IF Lower(body) \in {Chars_inf, Chars_infinity}
        THEN [ok |-> TRUE, kind |-> "inf", neg |-> neg, m |-> 0, k |-> 0]
        ELSE IF Lower(body) = Chars_nan
        THEN [ok |-> TRUE, kind |-> "nan", neg |-> neg, m |-> 0, k |-> 0]
        ELSE DecimalOf(body, neg)

\* num < 0 for a parsed float
FloatNegative(f) ==
    CASE f.kind = "fin" -> f.neg /\ f.m > 0
      [] f.kind = "inf" -> f.neg
      [] OTHER -> FALSE

\* num > bound for a parsed float and a natural number bound
FloatGreater(f, bound) ==
    CASE f.kind = "fin" -> ~f.neg /\ f.m > bound * Pow10(f.k)
      [] f.kind = "inf" -> ~f.neg
      [] OTHER -> FALSE

\* k decimal digits of the natural number x, zero-padded on the left
RECURSIVE PadChars(_, _)
PadChars(x, k) ==
    IF k = 0 THEN <<>> ELSE PadChars(x \div 10, k - 1) \o <<Digits[(x % 10) + 1]>>

RECURSIVE DropTrailingZeros(_)
DropTrailingZeros(s) ==
    IF s # <<>> /\ s[Len(s)] = "0" THEN DropTrailingZeros(SubSeq(s, 1, Len(s) - 1)) ELSE s

\* repr(num) for a parsed float in positional notation
FloatChars(f) ==
    CASE f.kind = "nan" -> Chars_nan
      [] f.kind = "inf" -> (IF f.neg THEN <<"-">> ELSE <<>>) \o Chars_inf
      [] OTHER ->
            LET frac == DropTrailingZeros(PadChars(f.m % Pow10(f.k), f.k))
            IN  (IF f.neg THEN <<"-">> ELSE <<>>) \o NatChars(f.m \div Pow10(f.k))
                    \o <<".">> \o (IF frac = <<>> THEN <<"0">> ELSE frac)

-----------------------------------------------------------------------------
(* validation.py *)

\* the action names, as character sequences
A_Launch == <<"L", "a", "u", "n", "c", "h">>
A_Tap == <<"T", "a", "p">>
A_Type == <<"T", "y", "p", "e">>
A_Type_Name == <<"T", "y", "p", "e", "_", "N", "a", "m", "e">>
A_Swipe == <<"S", "w", "i", "p", "e">>
A_Back == <<"B", "a", "c", "k">>
A_Home == <<"H", "o", "m", "e">>
A_Double_Tap == <<"D", "o", "u", "b", "l", "e", " ", "T", "a", "p">>
A_Long_Press == <<"L", "o", "n", "g", " ", "P", "r", "e", "s", "s">>
A_Wait == <<"W", "a", "i", "t">>
A_Take_over == <<"T", "a", "k", "e", "_", "o", "v", "e", "r">>
A_Note == <<"N", "o", "t", "e">>
A_Call_API == <<"C", "a", "l", "l", "_", "A", "P", "I">>
A_Interact == <<"I", "n", "t", "e", "r", "a", "c", "t">>

VALID_ACTIONS ==
    {A_Launch, A_Tap, A_Type, A_Type_Name, A_Swipe,
     A_Back, A_Home, A_Double_Tap, A_Long_Press, A_Wait,
     A_Take_over, A_Note, A_Call_API, A_Interact}

\* a table whose fix for "tap" is itself a key of the table
typo_fixes_Chained ==
    {<<<<"t", "a", "p">>, <<"T", "A", "P">>>>,
     <<<<"T", "A", "P">>, A_Tap>>,
     <<<<"s", "w", "i", "p", "e">>, A_Swipe>>,
     <<<<"S", "W", "I", "P", "E">>, A_Swipe>>,
     <<<<"l", "a", "u", "n", "c", "h">>, A_Launch>>,
     <<<<"L", "A", "U", "N", "C", "H">>, A_Launch>>,
     <<<<"b", "a", "c", "k">>, A_Back>>,
     <<<<"B", "A", "C", "K">>, A_Back>>,
     <<<<"h", "o", "m", "e">>, A_Home>>,
     <<<<"H", "O", "M", "E">>, A_Home>>,
     <<<<"t", "y", "p", "e">>, A_Type>>,
     <<<<"T", "Y", "P", "E">>, A_Type>>}

\* a table whose fix for "TYPE" names another action
typo_fixes_WrongTarget ==
    {<<<<"t", "a", "p">>, A_Tap>>,
     <<<<"T", "A", "P">>, A_Tap>>,
     <<<<"s", "w", "i", "p", "e">>, A_Swipe>>,
     <<<<"S", "W", "I", "P", "E">>, A_Swipe>>,
     <<<<"l", "a", "u", "n", "c", "h">>, A_Launch>>,
     <<<<"L", "A", "U", "N", "C", "H">>, A_Launch>>,
     <<<<"b", "a", "c", "k">>, A_Back>>,
     <<<<"B", "A", "C", "K">>, A_Back>>,
     <<<<"h", "o", "m", "e">>, A_Home>>,
     <<<<"H", "O", "M", "E">>, A_Home>>,
     <<<<"t", "y", "p", "e">>, A_Type>>,
     <<<<"T", "Y", "P", "E">>, A_Tap>>}

\* the typo table of sanitize_action, as <<key, value>> pairs
typo_fixes ==
    {<<<<"t", "a", "p">>, A_Tap>>,
     <<<<"T", "A", "P">>, A_Tap>>,
     <<<<"s", "w", "i", "p", "e">>, A_Swipe>>,
     <<<<"S", "W", "I", "P", "E">>, A_Swipe>>,
     <<<<"l", "a", "u", "n", "c", "h">>, A_Launch>>,
     <<<<"L", "A", "U", "N", "C", "H">>, A_Launch>>,
     <<<<"b", "a", "c", "k">>, A_Back>>,
     <<<<"B", "A", "C", "K">>, A_Back>>,
     <<<<"h", "o", "m", "e">>, A_Home>>,
     <<<<"H", "O", "M", "E">>, A_Home>>,
     <<<<"t", "y", "p", "e">>, A_Type>>,
     <<<<"T", "Y", "P", "E">>, A_Type>>}

\* dict operations
Has(d, key) == key \in DOMAIN d

Get(d, key, default) == IF key \in DOMAIN d THEN d[key] ELSE default

Put(d, key, v) == [x \in DOMAIN d \cup {key} |-> IF x = key THEN v ELSE d[x]]

Without(d, key) == [x \in DOMAIN d \ {key} |-> d[x]]

\* a requirements table whose Swipe entry lost "end"
ACTION_REQUIREMENTS_SwipeStartOnly(name) ==
    CASE name = A_Launch -> <<"app">>
      [] name = A_Tap -> <<"element">>
      [] name = A_Type -> <<"text">>
      [] name = A_Type_Name -> <<"text">>
      [] name = A_Swipe -> <<"start">>
      [] name = A_Double_Tap -> <<"element">>
      [] name = A_Long_Press -> <<"element">>
      [] name = A_Wait -> <<"duration">>
      [] OTHER -> <<>>

\* ACTION_REQUIREMENTS.get(action_name, []) for a valid action name
ACTION_REQUIREMENTS(name) ==
    CASE name = A_Launch -> <<"app">>
      [] name = A_Tap -> <<"element">>
      [] name = A_Type -> <<"text">>
      [] name = A_Type_Name -> <<"text">>
      [] name = A_Swipe -> <<"start", "end">>
      [] name = A_Double_Tap -> <<"element">>
      [] name = A_Long_Press -> <<"element">>
      [] name = A_Wait -> <<"duration">>
      [] OTHER -> <<>>

CoordMin == 0
CoordMax == 999
LongWait == 60

\* the error of one component of a coordinate field, <<>> when it has none
ComponentErrors(val, field_name, i) ==
    IF ~IsNumber(val)
    THEN << <<field_name, "[">> \o NatChars(i) \o <<"] must be a number, got ", TypeName(val)>> >>
    ELSE IF NumLess(val, CoordMin) \/ NumGreater(val, CoordMax)
    THEN << <<field_name, "[">> \o NatChars(i) \o <<"]=">> \o StrOf(val)
                \o <<" out of range (0-999)">> >>
    ELSE <<>>

\* _validate_coordinates(coords, field_name): the list of error messages
ValidateCoordinates(coords, field_name) ==
    IF coords.t \notin {"list", "tuple"}
    THEN << <<field_name, " must be a list, got ", TypeName(coords)>> >>
    ELSE IF Len(coords.xs) # 2
    THEN << <<field_name, " must have 2 values, got ">> \o NatChars(Len(coords.xs)) >>
    ELSE ComponentErrors(coords.xs[1], field_name, 0)
            \o ComponentErrors(coords.xs[2], field_name, 1)

\* the errors of the required-field loop of validate_action
RECURSIVE RequiredErrors(_, _, _)
RequiredErrors(d, name, fields) ==
    IF fields = <<>> THEN <<>>
    ELSE (IF Has(d, Head(fields)) THEN <<>>
          ELSE << <<"Missing required field '", Head(fields), "' for action '">>
                    \o name \o <<"'">> >>)
         \o RequiredErrors(d, name, Tail(fields))

\* the three coordinate checks of validate_action, in the order of the code
CoordinateErrors(d) ==
    (IF Has(d, "element") THEN ValidateCoordinates(d["element"], "element") ELSE <<>>)
    \o (IF Has(d, "start") THEN ValidateCoordinates(d["start"], "start") ELSE <<>>)
    \o (IF Has(d, "end") THEN ValidateCoordinates(d["end"], "end") ELSE <<>>)

\* duration_str.replace("seconds", "").replace("s", "").strip()
DurationText(duration_str) ==
    Strip(RemoveAll(RemoveAll(duration_str, <<"s", "e", "c", "o", "n", "d", "s">>), <<"s">>))

\* a Wait block that rejects a long wait instead of warning about it
DurationCheck_LongIsError(d, name) ==
    IF name = A_Wait /\ Has(d, "duration")
    THEN LET num == FloatOfChars(DurationText(StrOf(d["duration"])))
         IN  IF ~num.ok \/ FloatNegative(num) \/ FloatGreater(num, LongWait)
             THEN [errors |-> << <<"Invalid duration">> >>, warnings |-> <<>>]
             ELSE [errors |-> <<>>, warnings |-> <<>>]
    ELSE [errors |-> <<>>, warnings |-> <<>>]
\* the Wait block of validate_action: [errors, warnings]
DurationCheck(d, name) ==
    IF name = A_Wait /\ Has(d, "duration")
    THEN LET duration_str == StrOf(d["duration"])
             num == FloatOfChars(DurationText(duration_str))
         IN  IF ~num.ok
             THEN [errors |-> << <<"Invalid duration format: ">> \o duration_str >>,
                   warnings |-> <<>>]
             ELSE IF FloatNegative(num)
             THEN [errors |-> << <<"Wait duration cannot be negative">> >>, warnings |-> <<>>]
             ELSE IF FloatGreater(num, LongWait)
             THEN [errors |-> <<>>,
                   warnings |-> << <<"Long wait duration: ">> \o FloatChars(num) \o <<"s">> >>]
             ELSE [errors |-> <<>>, warnings |-> <<>>]
    ELSE [errors |-> <<>>, warnings |-> <<>>]

ValidationResult(is_valid, errors, warnings) ==
    [exc |-> "none", is_valid |-> is_valid, errors |-> errors, warnings |-> warnings]

\* a call that ended by raising exc instead of returning
Raised(exc) == [exc |-> exc, is_valid |-> FALSE, errors |-> <<>>, warnings |-> <<>>]

\* an unknown action name reported as a warning
UnknownActionAsWarning(action_name) ==
    ValidationResult(TRUE, <<>>, << <<"Unknown action: ">> \o StrOf(action_name) >>)

\* the return of validate_action for an action name outside VALID_ACTIONS
UnknownActionResult(action_name) ==
    ValidationResult(FALSE, << <<"Unknown action: ">> \o StrOf(action_name) >>, <<>>)

\* validate_action(action)
validate_action(d) ==
    LET metadata == Get(d, "_metadata", PyNone)
        action_name == Get(d, "action", PyNone)
    IN  IF metadata \notin {PyStr(<<"d", "o">>), PyStr(<<"f", "i", "n", "i", "s", "h">>)}
        THEN ValidationResult(FALSE, << <<"Invalid _metadata: ">> \o StrOf(metadata) >>, <<>>)
        ELSE IF metadata = PyStr(<<"f", "i", "n", "i", "s", "h">>)
        THEN ValidationResult(TRUE, <<>>,
                 IF Has(d, "message") THEN <<>> ELSE << <<"finish action without message">> >>)
        ELSE IF action_name = PyNone
        THEN ValidationResult(FALSE, << <<"Missing 'action' field">> >>, <<>>)
        ELSE IF ~Hashable(action_name)
        THEN Raised("TypeError")
        ELSE IF ~(action_name.t = "str" /\ action_name.cs \in VALID_ACTIONS)
        THEN UnknownActionResult(action_name)
        ELSE LET name == action_name.cs
                 wait == DurationCheck(d, name)
                 errors == RequiredErrors(d, name, ACTION_REQUIREMENTS(name))
                               \o CoordinateErrors(d) \o wait.errors
             IN  ValidationResult(Len(errors) = 0, errors, wait.warnings)

\* a validate_action that takes the metadata out of the dict with pop()
ActionAfterValidate_Pop(d) == Without(d, "_metadata")

\* the directive candidate after validate_action has run on it: the function
\* reads it (get, in, []) and assigns to none of its keys
ActionAfterValidate(d) == d

\* [max(0, min(999, int(v))) for v in items]: [exc, xs]
ClampItems(items) ==
    IF \E i \in 1..Len(items) : ~IntOf(items[i]).ok
    THEN [exc |-> IntOf(items[CHOOSE i \in 1..Len(items) :
                                  /\ ~IntOf(items[i]).ok
                                  /\ \A j \in 1..(i - 1) : IntOf(items[j]).ok]).exc,
          xs |-> <<>>]
    ELSE [exc |-> "none",
          xs |-> [i \in 1..Len(items) |->
                    LET v == IntOf(items[i]).v
                        low == IF v < CoordMax THEN v ELSE CoordMax
                    IN  PyInt(IF low > CoordMin THEN low ELSE CoordMin)]]

\* one round of the clamp loop of sanitize_action: [exc, d]
ClampField(r, field) ==
    IF r.exc # "none" THEN r
    ELSE IF Has(r.d, field) /\ r.d[field].t = "list"
    THEN LET c == ClampItems(r.d[field].xs)
         IN  IF c.exc # "none" THEN [exc |-> c.exc, d |-> r.d]
             ELSE [exc |-> "none", d |-> Put(r.d, field, PyList(c.xs))]
    ELSE r

\* the action-name block of sanitize_action: [exc, d]
FixActionName(r) ==
    IF r.exc # "none" THEN r
    ELSE LET action_name == Get(r.d, "action", PyStr(<<>>))
         IN  IF ~Hashable(action_name) THEN [exc |-> "TypeError", d |-> r.d]
             ELSE IF action_name.t = "str" /\ \E p \in typo_fixes : p[1] = action_name.cs
             THEN [exc |-> "none",
                   d |-> Put(r.d, "action",
                             PyStr((CHOOSE p \in typo_fixes : p[1] = action_name.cs)[2]))]
             ELSE r

\* sanitize_action(action): [exc, d]; exc # "none" when the call raises
sanitize_action(d) ==
    FixActionName(
        ClampField(ClampField(ClampField([exc |-> "none", d |-> d], "element"), "start"), "end"))

-----------------------------------------------------------------------------
(* The directive candidates the pipeline is run on *)

MaxCoordLen == 3
MaxDurLen == 3
MaxCaseLen == 4

\* marks a key the candidate does not carry
Absent == [t |-> "absent", n |-> 0, cs |-> <<>>, xs |-> <<>>]

\* the dict that carries the keys of the record f whose value is not Absent
MkDict(f) == [key \in {x \in DOMAIN f : f[x] # Absent} |-> f[key]]

NoFields ==
    [_metadata |-> Absent, action |-> Absent, element |-> Absent, start |-> Absent,
     end |-> Absent, text |-> Absent, app |-> Absent, message |-> Absent,
     duration |-> Absent, instruction |-> Absent]

M_do == PyStr(<<"d", "o">>)
M_finish == PyStr(<<"f", "i", "n", "i", "s", "h">>)

\* all sequences over S of length at most k
SeqsUpTo(S, k) == UNION {[1..m -> S] : m \in 0..k}

\* components of a coordinate field: in range, on and over the edges, floats,
\* and the non-numeric values a parsed model reply can hold
Components ==
    {PyInt(-50), PyInt(-1), PyInt(0), PyInt(200), PyInt(999), PyInt(1000), PyInt(1500),
     PyHalves(1999), PyHalves(-1), PyNaN, PyInf(1), PyBool(TRUE),
     PyStr(<<"7">>), PyStr(<<"x">>), PyNone, PyList(<<PyInt(1)>>)}

FewComponents == {PyInt(1500), PyInt(200), PyStr(<<"x">>)}

CoordValues ==
    {PyList(<<a, b>>) : a \in Components, b \in Components}
        \cup {PyTuple(<<a, b>>) : a \in Components, b \in Components}
        \cup {PyList(xs) : xs \in SeqsUpTo(FewComponents, MaxCoordLen)}
        \cup {PyTuple(xs) : xs \in SeqsUpTo(FewComponents, MaxCoordLen)}
        \cup {PyInt(5), PyStr(<<"1", "0", "0">>), PyNone}

GoodCoord == PyList(<<PyInt(100), PyInt(200)>>)

DurAlphabet == {"-", "6", "1", ".", "s", " "}

DurWords ==
    {<<"s", "e", "c", "o", "n", "d", "s">>,
     <<"s", "e", "c", "s">>,
     <<"s", "e", "c", "o", "n", "d">>,
     <<"a", "b", "c">>,
     <<"n", "a", "n">>,
     <<"i", "n", "f">>,
     <<"I", "n", "f", "i", "n", "i", "t", "y">>,
     <<"s", "i", "x">>}

\* duration values: every short text over DurAlphabet, a number followed by a
\* word, the words alone, and values that are not text
DurValues ==
    {PyStr(cs) : cs \in SeqsUpTo(DurAlphabet, MaxDurLen)}
        \cup {PyStr(w) : w \in DurWords}
        \cup {PyStr(<<"1", "e", "2">>), PyStr(<<"6", "e", "1">>), PyStr(<<"1", "e", "-", "1">>), PyStr(<<"+", "5">>)}
        \cup {PyStr(n \o sep \o w) : n \in {<<"5">>, <<"9", "0">>, <<"-", "3">>},
                                     sep \in {<<>>, <<" ">>}, w \in DurWords}
        \cup {PyInt(5), PyInt(61), PyInt(-3), PyHalves(121), PyNone, PyBool(TRUE),
              PyList(<<PyInt(5)>>)}

\* every casing of a character sequence
RECURSIVE Casings(_)
Casings(cs) ==
    IF cs = <<>> THEN {<<>>}
    ELSE {<<c>> \o r : c \in {LowerChar(Head(cs)), UpperChar(Head(cs))}, r \in Casings(Tail(cs))}

\* action values: the canonical names, their lower and upper case forms, every
\* casing of the short ones, names outside the set, and values that are not text
NameValues ==
    {PyStr(a) : a \in VALID_ACTIONS}
        \cup {PyStr(Lower(a)) : a \in VALID_ACTIONS}
        \cup {PyStr(Upper(a)) : a \in VALID_ACTIONS}
        \cup {PyStr(c) : c \in UNION {Casings(a) : a \in {b \in VALID_ACTIONS : Len(b) <= MaxCaseLen}}}
        \cup {PyStr(<<"U", "n", "k", "n", "o", "w", "n", "A", "c", "t", "i", "o", "n">>),
              PyStr(<<"T", "a", "p", " ">>), PyStr(<<>>), PyNone, PyInt(5), PyBool(TRUE),
              PyList(<<PyStr(A_Tap)>>), PyTuple(<<PyStr(A_Tap)>>),
              PyTuple(<<PyList(<<>>)>>)}

MetaValues ==
    {M_do, M_finish, PyStr(<<"e", "x", "e", "c">>), PyNone, PyList(<<M_do>>), Absent}

SomeText == PyStr(<<"h", "i">>)

NoDict == <<>>
NoResult == Raised("unset")

\* known action, any subset of the other fields present with well-formed values
InitRequired ==
    \E a \in VALID_ACTIONS, present \in SUBSET {"element", "start", "end", "text", "app",
                                                "message", "duration", "instruction"} :
        action = MkDict([key \in DOMAIN NoFields |->
                            CASE key = "_metadata" -> M_do
                              [] key = "action" -> PyStr(a)
                              [] key \notin present -> Absent
                              [] key \in {"element", "start", "end"} -> GoodCoord
                              [] key = "duration" -> PyStr(<<"5">>)
                              [] OTHER -> SomeText])

\* any metadata, any action value
InitNames ==
    \E m \in MetaValues, a \in NameValues \cup {Absent}, msg \in {Absent, SomeText},
       e \in {Absent, GoodCoord, PyList(<<PyInt(1500), PyInt(200)>>)} :
        action = MkDict([NoFields EXCEPT !._metadata = m, !.action = a, !.message = msg,
                                         !.element = e])

\* any value in the coordinate fields
InitCoords ==
    \E a \in {A_Tap, A_Swipe, A_Back}, e \in CoordValues \cup {Absent},
       s \in {Absent, GoodCoord, PyTuple(<<PyInt(1500), PyInt(0)>>)},
       en \in {Absent, PyList(<<PyHalves(1999), PyInt(-50)>>)} :
        action = MkDict([NoFields EXCEPT !._metadata = M_do, !.action = PyStr(a),
                                         !.element = e, !.start = s, !.end = en])

\* any duration
InitDurations ==
    \E a \in {A_Wait, A_Tap, Lower(A_Wait)}, du \in DurValues \cup {Absent},
       e \in {Absent, GoodCoord} :
        action = MkDict([NoFields EXCEPT !._metadata = M_do, !.action = PyStr(a),
                                         !.duration = du, !.element = e])

-----------------------------------------------------------------------------
(* models.py: the request models; api.py: the single-action endpoint *)

RateLimit == 2
WindowSeconds == 60

\* a Coordinates object
Coordinates(x, y) == [t |-> "Coordinates", n |-> 0, cs |-> <<>>, xs |-> <<PyInt(x), PyInt(y)>>]

\* Coordinates.to_list()
to_list(c) == PyList(<<c.xs[1], c.xs[2]>>)

\* the field constraints of Coordinates: x and y are ints with ge=0, le=999
CoordinatesValid(c) ==
    /\ c.t = "Coordinates"
    /\ \A i \in 1..2 : c.xs[i].t = "int" /\ c.xs[i].n >= 0 /\ c.xs[i].n <= 999

\* the field types of ActionRequest: an ActionType, Optional[Coordinates],
\* Optional[str]
FieldTypesValid(body) ==
    /\ body.action.t = "str" /\ body.action.cs \in VALID_ACTIONS
    /\ \A f \in {"element", "start", "end"} : body[f] = PyNone \/ CoordinatesValid(body[f])
    /\ \A f \in {"text", "app", "message", "duration", "instruction"} :
          body[f].t \in {"None", "str"}

\* ActionRequest.validate_required_fields: TRUE when it returns self, FALSE
\* when it raises ValueError
validate_required_fields(body) ==
    LET a == body.action.cs
    IN  /\ ~(a = A_Tap /\ body.element = PyNone)
        /\ ~(a = A_Swipe /\ (body.start = PyNone \/ body.end = PyNone))
        /\ ~(a \in {A_Type, A_Type_Name} /\ body.text = PyNone)
        /\ ~(a = A_Launch /\ body.app = PyNone)
        /\ ~(a = A_Double_Tap /\ body.element = PyNone)
        /\ ~(a = A_Long_Press /\ body.element = PyNone)

\* an ActionRequest can be constructed from the body
ActionRequestValid(body) == FieldTypesValid(body) /\ validate_required_fields(body)

\* bool(v) in "if self.<field>:": None and "" are false, a model object is true
Truthy(v) ==
    CASE v.t = "None" -> FALSE
      [] v.t = "str" -> v.cs # <<>>
      [] OTHER -> TRUE

\* ActionRequest.to_dict()
to_dict(req) ==
    MkDict([key \in DOMAIN NoFields |->
              CASE key = "_metadata" -> M_do
                [] key = "action" -> req.action
                [] key \in {"element", "start", "end"} ->
                      IF Truthy(req[key]) THEN to_list(req[key]) ELSE Absent
                [] OTHER -> IF Truthy(req[key]) THEN req[key] ELSE Absent])

\* verify_api_key: TRUE when it returns, FALSE when it raises the 401
verify_api_key(x_api_key) == ~(Truthy(api_key) /\ x_api_key # api_key)

\* the entries of a client that check_rate_limit keeps: those younger than 60 s
RECURSIVE Recent(_, _)
Recent(times, t) ==
    IF times = <<>> THEN <<>>
    ELSE (IF t - Head(times) < WindowSeconds THEN <<Head(times)>> ELSE <<>>)
            \o Recent(Tail(times), t)

\* rate_limit_store after the cleaning step of check_rate_limit
CleanedStore(client_ip) ==
    Put(rate_limit_store, client_ip,
        IF Has(rate_limit_store, client_ip) THEN Recent(rate_limit_store[client_ip], now)
        ELSE <<>>)

Clients == {"10.0.0.1"}

\* the instants at which requests arrive: either side of the 60 s window
Moments == {0, 1, WindowSeconds - 1, WindowSeconds, WindowSeconds + 1}

TheKey == PyStr(<<"k", "1">>)

HeaderKeys == {PyNone, TheKey, PyStr(<<"k", "2">>)}

NoBody ==
    [action |-> PyNone, element |-> PyNone, start |-> PyNone, end |-> PyNone,
     text |-> PyNone, app |-> PyNone, message |-> PyNone, duration |-> PyNone,
     instruction |-> PyNone]

FullBody ==
    [action |-> PyNone, element |-> Coordinates(100, 200), start |-> Coordinates(0, 500),
     end |-> Coordinates(0, 100), text |-> SomeText, app |-> SomeText,
     message |-> SomeText, duration |-> PyStr(<<"5">>), instruction |-> SomeText]

\* request bodies: each action alone and with every field, the empty strings,
\* durations of several shapes, coordinates on and over the edge, a name that
\* is no ActionType
Bodies ==
    {[NoBody EXCEPT !.action = PyStr(a)] : a \in VALID_ACTIONS}
        \cup {[FullBody EXCEPT !.action = PyStr(a)] :
                a \in {A_Tap, A_Swipe, A_Wait, A_Type, A_Launch}}
        \cup {[NoBody EXCEPT !.action = PyStr(A_Wait), !.duration = PyStr(d)] :
                d \in {<<>>, <<"5">>, <<"9", "0">>, <<"-", "3">>, <<"a", "b", "c">>}}
        \cup {[NoBody EXCEPT !.action = PyStr(A_Type), !.text = PyStr(<<>>)],
              [NoBody EXCEPT !.action = PyStr(A_Launch), !.app = PyStr(<<>>)],
              [NoBody EXCEPT !.action = PyStr(A_Tap), !.element = Coordinates(999, 0)],
              [NoBody EXCEPT !.action = PyStr(A_Tap), !.element = Coordinates(1000, 0)],
              [NoBody EXCEPT !.action = PyStr(A_Tap), !.element = Coordinates(5, -1)],
              [NoBody EXCEPT !.action = PyStr(A_Tap), !.text = PyInt(5),
                             !.element = Coordinates(1, 1)],
              [NoBody EXCEPT !.action = PyStr(<<"F", "l", "y">>)]}

Whitelists == {VALID_ACTIONS, {A_Tap, A_Back, A_Type}}

\* the front end has served no request
ApiIdle ==
    /\ api_key = PyNone
    /\ allowed_actions = VALID_ACTIONS
    /\ rate_limit_store = <<>>
    /\ now = 0
    /\ executed = NoDict
    /\ status = 0

InitApi ==
    /\ api_key \in {PyNone, TheKey}
    /\ allowed_actions \in Whitelists
    /\ rate_limit_store = <<>>
    /\ now = 0
    /\ executed = NoDict
    /\ status = 0
    /\ action = NoDict
    /\ pc = "idle"
    /\ sanitized = NoDict
    /\ sanitized2 = NoDict
    /\ result = NoResult
    /\ result2 = NoResult
    /\ raised = "none"
    /\ ProbeIdle
    /\ LoopIdle
    /\ ParseIdle
    /\ ServeIdle
    /\ TaskIdle
    /\ RetryIdle
    /\ TreeIdle

\* a whitelist check that lets every action through
Whitelisted_Any(name) == TRUE

\* request.action.action in config.allowed_actions
Whitelisted(name) == name \in allowed_actions

\* POST /action: the dependencies verify_api_key and check_rate_limit, the
\* construction of the request model, then execute_action itself;
\* handler.execute either returns (200) or raises (500)
ExecuteAction(client_ip, x_api_key, body) ==
    /\ IF ~verify_api_key(x_api_key)
       THEN /\ status' = 401
            /\ UNCHANGED <<rate_limit_store, executed>>
       ELSE IF Len(CleanedStore(client_ip)[client_ip]) >= RateLimit
       THEN /\ status' = 429
            /\ rate_limit_store' = CleanedStore(client_ip)
            /\ UNCHANGED executed
       ELSE /\ rate_limit_store' =
                  Put(rate_limit_store, client_ip,
                      Append(CleanedStore(client_ip)[client_ip], now))
            /\ IF ~ActionRequestValid(body)
               THEN /\ status' = 422
                    /\ UNCHANGED executed
               ELSE IF ~Whitelisted(body.action.cs)
               THEN /\ status' = 403
                    /\ UNCHANGED executed
               ELSE /\ executed' = to_dict(body)
                    /\ status' \in {200, 500}
    /\ UNCHANGED <<api_key, allowed_actions, now>>
    /\ UNCHANGED outsideApi

\* time passes
Tick ==
    /\ \E t \in Moments : t > now /\ now' = t
    /\ UNCHANGED <<api_key, allowed_actions, rate_limit_store, executed, status>>
    /\ UNCHANGED outsideApi

PostAction ==
    \E client_ip \in Clients, x_api_key \in HeaderKeys, body \in Bodies :
        ExecuteAction(client_ip, x_api_key, body)

NextApi == PostAction \/ Tick

Init ==
    /\ InitRequired \/ InitNames \/ InitCoords \/ InitDurations
    /\ pc = "start"
    /\ sanitized = NoDict
    /\ sanitized2 = NoDict
    /\ result = NoResult
    /\ result2 = NoResult
    /\ raised = "none"
    /\ ApiIdle
    /\ ProbeIdle
    /\ LoopIdle
    /\ ParseIdle
    /\ ServeIdle
    /\ TaskIdle
    /\ RetryIdle
    /\ TreeIdle

\* sanitized = sanitize_action(action)
Sanitize ==
    /\ pc = "start"
    /\ LET r == sanitize_action(action)
       IN  IF r.exc = "none"
           THEN /\ sanitized' = r.d
                /\ pc' = "sanitized"
                /\ raised' = "none"
           ELSE /\ sanitized' = NoDict
                /\ pc' = "raised"
                /\ raised' = r.exc
    /\ UNCHANGED <<action, sanitized2, result, result2>>
    /\ UNCHANGED outsideVal

\* sanitized2 = sanitize_action(sanitized)
Resanitize ==
    /\ pc = "sanitized"
    /\ LET r == sanitize_action(sanitized)
       IN  IF r.exc = "none"
           THEN /\ sanitized2' = r.d
                /\ pc' = "resanitized"
                /\ raised' = "none"
           ELSE /\ sanitized2' = NoDict
                /\ pc' = "raised_again"
                /\ raised' = r.exc
    /\ UNCHANGED <<action, sanitized, result, result2>>
    /\ UNCHANGED outsideVal

\* result = validate_action(action), on the candidate as it was handed in
ValidateRaw ==
    /\ pc = "start"
    /\ result' = validate_action(action)
    /\ action' = ActionAfterValidate(action)
    /\ pc' = "validated_raw"
    /\ UNCHANGED <<sanitized, sanitized2, result2, raised>>
    /\ UNCHANGED outsideVal

\* result = validate_action(sanitized), the recommended order
Validate ==
    /\ pc = "sanitized"
    /\ result' = validate_action(sanitized)
    /\ sanitized' = ActionAfterValidate(sanitized)
    /\ pc' = "validated"
    /\ UNCHANGED <<action, sanitized2, result2, raised>>
    /\ UNCHANGED outsideVal

\* a second validate_action call on the same dict object
RevalidateRaw ==
    /\ pc = "validated_raw"
    /\ result2' = validate_action(action)
    /\ action' = ActionAfterValidate(action)
    /\ pc' = "revalidated_raw"
    /\ UNCHANGED <<sanitized, sanitized2, result, raised>>
    /\ UNCHANGED outsideVal

Revalidate ==
    /\ pc = "validated"
    /\ result2' = validate_action(sanitized)
    /\ sanitized' = ActionAfterValidate(sanitized)
    /\ pc' = "revalidated"
    /\ UNCHANGED <<action, sanitized2, result, raised>>
    /\ UNCHANGED outsideVal

Next == Sanitize \/ Resanitize \/ ValidateRaw \/ Validate \/ RevalidateRaw \/ Revalidate

vars == <<valVars, apiVars, probeVars, loopVars, parseVars, serveVars, taskVars, retryVars, treeVars>>

Spec == Init /\ [][Next]_vars

SpecApi == InitApi /\ [][NextApi]_vars

-----------------------------------------------------------------------------
(* Properties of the validator and the sanitizer *)

CoordFields == {"element", "start", "end"}

\* validate_action has returned or raised; Subject is the dict it was given
Validated == pc \in {"validated_raw", "validated", "revalidated_raw", "revalidated"}

Subject == IF pc \in {"validated_raw", "revalidated_raw"} THEN action ELSE sanitized

\* sanitize_action(action) has returned, and sanitized holds what it returned
SanitizeReturned == pc \in {"sanitized", "resanitized", "validated", "revalidated"}

\* a do-directive whose action is one of the known names
KnownDo(d) ==
    /\ Has(d, "_metadata") /\ d["_metadata"] = M_do
    /\ Has(d, "action") /\ d["action"].t = "str" /\ d["action"].cs \in VALID_ACTIONS

\* the value is a number of [0, 999]; NaN and the infinities are not
ValueInRange(v) ==
    CASE v.t \in {"int", "bool"} -> 0 <= v.n /\ v.n <= 999
      [] v.t = "float" -> 0 <= v.n /\ v.n <= 1998
      [] OTHER -> FALSE

\* a coordinate field that holds numeric values
NumericCoord(v) == v.t \in {"list", "tuple"} /\ \A i \in 1..Len(v.xs) : IsNumber(v.xs[i])

IsRangeError(msg) == msg[Len(msg)] = " out of range (0-999)"

IsMissingFieldError(msg) == msg[1] = "Missing required field '"

IsDurationError(msg) ==
    msg[1] \in {"Invalid duration format: ", "Wait duration cannot be negative"}

\* the text names the field
Names(msg, field) == \E i \in 1..Len(msg) : msg[i] = field

\* C2 (as stated): when the coordinate fields of a directive hold numeric
\* values, every component of those fields in sanitize_action(d) lies in
\* [0, 999] and validate_action(sanitize_action(d)) reports no out-of-range error.
C2_SanitizedCoordinatesInRange ==
    (SanitizeReturned /\ \A f \in CoordFields : Has(action, f) => NumericCoord(action[f]))
        => /\ \A f \in CoordFields :
                Has(sanitized, f) =>
                    \A i \in 1..Len(sanitized[f].xs) : ValueInRange(sanitized[f].xs[i])
           /\ pc \in {"validated", "revalidated"} =>
                \A i \in 1..Len(result.errors) : ~IsRangeError(result.errors[i])

\* the required fields as the claim lists them
ClaimedRequirements(name) ==
    CASE name = A_Launch -> {"app"}
      [] name \in {A_Tap, A_Double_Tap, A_Long_Press} -> {"element"}
      [] name \in {A_Type, A_Type_Name} -> {"text"}
      [] name = A_Swipe -> {"start", "end"}
      [] name = A_Wait -> {"duration"}
      [] OTHER -> {}

\* one error per missing required field, each naming its field
OneErrorPerMissingField(d) ==
    LET missing == {f \in ClaimedRequirements(d["action"].cs) : ~Has(d, f)}
        reported == {i \in 1..Len(result.errors) : IsMissingFieldError(result.errors[i])}
    IN  /\ result.exc = "none"
        /\ missing # {} => ~result.is_valid
        /\ Cardinality(reported) = Cardinality(missing)
        /\ \A f \in missing :
              Cardinality({i \in reported : Names(result.errors[i], f)}) = 1

\* C3 (as stated): for a do-directive with a known action validate_action
\* reports one error per missing required field, naming the field, and for
\* Tap with no element the result has exactly one error, which names "element".
C3_TapWithoutElementHasOneError ==
    (Validated /\ KnownDo(Subject))
        => /\ OneErrorPerMissingField(Subject)
           /\ (Subject["action"].cs = A_Tap /\ ~Has(Subject, "element"))
                => Len(result.errors) = 1 /\ Names(result.errors[1], "element")

\* C3 (amended): the same, the exactly-one-error part for a Tap directive that
\* carries no element and no start or end field either.
C3_MissingFieldsReported ==
    (Validated /\ KnownDo(Subject))
        => /\ OneErrorPerMissingField(Subject)
           /\ (/\ Subject["action"].cs = A_Tap
               /\ \A f \in CoordFields : ~Has(Subject, f))
                => Len(result.errors) = 1 /\ Names(result.errors[1], "element")

\* validate_action was given do(action="Tap") and nothing else
C3_Witness ==
    /\ pc = "validated_raw"
    /\ DOMAIN action = {"_metadata", "action"}
    /\ KnownDo(action) /\ action["action"].cs = A_Tap
    /\ Len(result.errors) = 1

\* a two-element array whose components are both numbers in [0, 999]
WellFormedCoord(v) ==
    /\ v.t \in {"list", "tuple"}
    /\ Len(v.xs) = 2
    /\ ValueInRange(v.xs[1]) /\ ValueInRange(v.xs[2])

\* the out-of-range error for component i (counted from 0) of a field
RangeErrorFor(field, i, val) ==
    <<field, "[">> \o NatChars(i) \o <<"]=">> \o StrOf(val) \o <<" out of range (0-999)">>

\* C4 (as stated): for a do-directive with a known action, each of element,
\* start and end that is present gets an error unless it is a two-element
\* array of numbers in [0, 999]; an out-of-range component is reported with
\* the field, its index and its value; a well-formed field gets no error.
C4_CoordinateFieldsChecked ==
    (Validated /\ KnownDo(Subject))
        => \A f \in CoordFields :
              Has(Subject, f) =>
                LET v == Subject[f]
                    mine == {i \in 1..Len(result.errors) : result.errors[i][1] = f}
                IN  /\ WellFormedCoord(v) <=> mine = {}
                    /\ (v.t \in {"list", "tuple"} /\ Len(v.xs) = 2) =>
                          \A k \in 1..2 :
                              (IsNumber(v.xs[k]) /\ ~ValueInRange(v.xs[k])) =>
                                  \E i \in mine :
                                      result.errors[i] = RangeErrorFor(f, k - 1, v.xs[k])

EndsWith(s, suffix) ==
    Len(s) >= Len(suffix) /\ SubSeq(s, Len(s) - Len(suffix) + 1, Len(s)) = suffix

\* the number a duration text stands for: the text without a unit suffix
\* "seconds" or "s", read as a number
ClaimedDurationNumber(text) ==
    LET b == Strip(text)
        seconds == <<"s", "e", "c", "o", "n", "d", "s">>
        core == IF EndsWith(b, seconds) THEN SubSeq(b, 1, Len(b) - 7)
                ELSE IF EndsWith(b, <<"s">>) THEN SubSeq(b, 1, Len(b) - 1)
                ELSE b
    IN  FloatOfChars(core)

\* C5 (as stated): the duration of a Wait directive is parsed as a number
\* after stripping the unit suffixes; negative gives an error, more than 60 a
\* warning and no error, [0, 60] neither, unparsable an error; so no Wait
\* directive that validates has a non-numeric or negative duration.
C5_WaitDurationChecked ==
    (Validated /\ KnownDo(Subject) /\ Subject["action"].cs = A_Wait /\ Has(Subject, "duration"))
        => LET num == ClaimedDurationNumber(StrOf(Subject["duration"]))
               durErrors == {i \in 1..Len(result.errors) : IsDurationError(result.errors[i])}
           IN  /\ ~num.ok => durErrors # {} /\ ~result.is_valid
               /\ (num.ok /\ FloatNegative(num)) => durErrors # {} /\ ~result.is_valid
               /\ (num.ok /\ FloatGreater(num, 60)) => durErrors = {} /\ result.warnings # <<>>
               /\ (num.ok /\ ~FloatNegative(num) /\ ~FloatGreater(num, 60))
                    => durErrors = {} /\ result.warnings = <<>>
               /\ result.is_valid => num.ok /\ ~FloatNegative(num)

\* C6: sanitize_action is idempotent: applied to a dict it returned, it
\* returns, and returns an equal dict.
C6_SanitizeIdempotent ==
    /\ pc # "raised_again"
    /\ pc = "resanitized" => sanitized2 = sanitized

\* the second application ran on a dict whose coordinates and action name the
\* first one had changed
C6_Witness ==
    /\ pc = "resanitized"
    /\ Has(action, "element") /\ sanitized["element"] # action["element"]
    /\ Has(action, "action") /\ sanitized["action"] # action["action"]

\* C7 (as stated): sanitize_action never raises, whatever the coordinate
\* lists and the action value hold.
C7_SanitizeNeverRaises == raised = "none"

FixedNames == {A_Tap, A_Swipe, A_Launch, A_Back, A_Home, A_Type}

C9_UnknownActionRejected ==
    /\ Cardinality(VALID_ACTIONS) = 14
    /\ (/\ Validated
        /\ Has(Subject, "_metadata") /\ Subject["_metadata"] = M_do
        /\ Has(Subject, "action") /\ Subject["action"] # PyNone
        /\ Hashable(Subject["action"])
        /\ ~(Subject["action"].t = "str" /\ Subject["action"].cs \in VALID_ACTIONS))
            => /\ result.exc = "none"
               /\ ~result.is_valid
               /\ result.errors = << <<"Unknown action: ">> \o StrOf(Subject["action"]) >>

\* an unknown name together with an out-of-range element was validated
C9_Witness ==
    /\ pc = "validated_raw"
    /\ Has(action, "_metadata") /\ action["_metadata"] = M_do
    /\ Has(action, "action") /\ action["action"].t = "str"
    /\ action["action"].cs \notin VALID_ACTIONS
    /\ Has(action, "element") /\ ~WellFormedCoord(action["element"])
    /\ ~result.is_valid

-----------------------------------------------------------------------------
(* Properties of the single-action endpoint *)

\* C1 (as stated): every directive handed to the executor has passed
\* validation: its required fields are present (duration for Wait included),
\* its coordinates are in [0, 999], a Wait duration is numeric and not negative.
C1_DispatchedDirectiveValidated ==
    executed # NoDict
        => /\ validate_action(executed).exc = "none"
           /\ validate_action(executed).is_valid
           /\ \A f \in ClaimedRequirements(executed["action"].cs) : Has(executed, f)

-----------------------------------------------------------------------------
(* device_state.py: the device readiness probe.  The outcome of one         *)
(* run_adb_command call is a record [exc, stdout]: exc names the exception   *)
(* it raised ("none" when it returned), stdout is the captured text.         *)

ScreenON == "on"
ScreenOFF == "off"
ScreenUNKNOWN == "unknown"

LockUNLOCKED == "unlocked"
LockLOCKED == "locked"
LockUNKNOWN == "unknown"

\* run_adb_command returned with this text on stdout
Returned(stdout) == [exc |-> "none", stdout |-> stdout]

\* run_adb_command raised: subprocess.TimeoutExpired after the timeout, or
\* FileNotFoundError (an OSError) when there is no adb to run
Failed(exc) == [exc |-> exc, stdout |-> <<>>]

\* sub in s
Contains(s, sub) ==
    \E i \in 1..(Len(s) - Len(sub) + 1) : SubSeq(s, i, i + Len(sub) - 1) = sub

\* s.find(c) for a character c, counted from 0; -1 when c is not in s
Find(s, c) ==
    IF \E i \in 1..Len(s) : s[i] = c
    THEN (CHOOSE i \in 1..Len(s) : s[i] = c /\ \A j \in 1..(i - 1) : s[j] # c) - 1
    ELSE -1

\* s.split(sep) for a character sep
RECURSIVE SplitOn(_, _)
SplitOn(s, sep) ==
    LET k == Find(s, sep)
    IN  IF k = -1 THEN <<s>>
        ELSE <<SubSeq(s, 1, k)>> \o SplitOn(SubSeq(s, k + 2, Len(s)), sep)

\* s.split(): the runs of characters that are not whitespace
RECURSIVE SplitWords(_)
SplitWords(s) ==
    LET b == LStrip(s)
        stop == IF \E i \in 1..Len(b) : IsSpace(b[i])
                THEN CHOOSE i \in 1..Len(b) : IsSpace(b[i]) /\ \A j \in 1..(i - 1) : ~IsSpace(b[j])
                ELSE Len(b) + 1
    IN  IF b = <<>> THEN <<>>
        ELSE <<SubSeq(b, 1, stop - 1)>> \o SplitWords(SubSeq(b, stop, Len(b)))

\* the result of a helper: the value it returns, or the exception that leaves it
Value(v) == [exc |-> "none", v |-> v]
Escaped(exc) == [exc |-> exc, v |-> <<>>]

\* a helper body left without its try/except: the exception of the command
\* leaves the helper
Uncaught(body, fallback) == body

\* try: body / except Exception: return fallback
Caught(body, fallback) == IF body.exc = "none" THEN body ELSE Value(fallback)

\* a connectivity check that takes any answer of adb for a connected device
_check_connection_AnyAnswer(out) ==
    Caught(IF out.exc # "none" THEN Escaped(out.exc) ELSE Value(out.stdout # <<>>), FALSE)

\* _check_connection, given the outcome of "adb get-state"
_check_connection(out) ==
    Caught(IF out.exc # "none" THEN Escaped(out.exc)
           ELSE Value(Contains(Strip(out.stdout), <<"d", "e", "v", "i", "c", "e">>)),
           FALSE)

\* _get_screen_state, given the outcomes of "dumpsys power" and of the
\* alternative "dumpsys display"; used tells how many commands were run
_get_screen_state(out1, out2) ==
    LET output == Lower(out1.stdout)
        body ==
            IF out1.exc # "none" THEN Escaped(out1.exc)
            ELSE IF Contains(output, <<"m", "s", "c", "r", "e", "e", "n", "o", "n", "=", "t", "r", "u", "e">>)
                    \/ Contains(output, <<"d", "i", "s", "p", "l", "a", "y", " ", "p", "o", "w", "e", "r", ":", " ", "s", "t", "a", "t", "e", "=", "o", "n">>)
            THEN Value(ScreenON)
            ELSE IF Contains(output, <<"m", "s", "c", "r", "e", "e", "n", "o", "n", "=", "f", "a", "l", "s", "e">>)
                    \/ Contains(output, <<"d", "i", "s", "p", "l", "a", "y", " ", "p", "o", "w", "e", "r", ":", " ", "s", "t", "a", "t", "e", "=", "o", "f", "f">>)
            THEN Value(ScreenOFF)
            ELSE IF out2.exc # "none" THEN Escaped(out2.exc)
            ELSE IF Contains(out2.stdout, <<"O", "N">>) THEN Value(ScreenON)
            ELSE IF Contains(out2.stdout, <<"O", "F", "F">>) THEN Value(ScreenOFF)
            ELSE Value(ScreenUNKNOWN)
    IN  Caught(body, ScreenUNKNOWN)

\* the first command of _get_screen_state settles the answer
ScreenSettledFirst(out1) ==
    \/ out1.exc # "none"
    \/ \E m \in {<<"m", "s", "c", "r", "e", "e", "n", "o", "n", "=", "t", "r", "u", "e">>, <<"d", "i", "s", "p", "l", "a", "y", " ", "p", "o", "w", "e", "r", ":", " ", "s", "t", "a", "t", "e", "=", "o", "n">>,
                 <<"m", "s", "c", "r", "e", "e", "n", "o", "n", "=", "f", "a", "l", "s", "e">>, <<"d", "i", "s", "p", "l", "a", "y", " ", "p", "o", "w", "e", "r", ":", " ", "s", "t", "a", "t", "e", "=", "o", "f", "f">>} :
          Contains(Lower(out1.stdout), m)

\* _get_lock_state, given the outcomes of the two "dumpsys window" commands
_get_lock_state(out1, out2) ==
    LET body ==
            IF out1.exc # "none" THEN Escaped(out1.exc)
            ELSE IF Contains(out1.stdout, <<"m", "D", "r", "e", "a", "m", "i", "n", "g", "L", "o", "c", "k", "s", "c", "r", "e", "e", "n", "=", "t", "r", "u", "e">>) THEN Value(LockLOCKED)
            ELSE IF Contains(out1.stdout, <<"m", "D", "r", "e", "a", "m", "i", "n", "g", "L", "o", "c", "k", "s", "c", "r", "e", "e", "n", "=", "f", "a", "l", "s", "e">>) THEN Value(LockUNLOCKED)
            ELSE IF out2.exc # "none" THEN Escaped(out2.exc)
            ELSE IF Contains(out2.stdout, <<"m", "S", "h", "o", "w", "i", "n", "g", "L", "o", "c", "k", "s", "c", "r", "e", "e", "n", "=", "t", "r", "u", "e">>) THEN Value(LockLOCKED)
            ELSE IF Contains(out2.stdout, <<"m", "S", "h", "o", "w", "i", "n", "g", "L", "o", "c", "k", "s", "c", "r", "e", "e", "n", "=", "f", "a", "l", "s", "e">>) THEN Value(LockUNLOCKED)
            ELSE Value(LockUNKNOWN)
    IN  Caught(body, LockUNKNOWN)

\* the first command of _get_lock_state settles the answer
LockSettledFirst(out1) ==
    \/ out1.exc # "none"
    \/ Contains(out1.stdout, <<"m", "D", "r", "e", "a", "m", "i", "n", "g", "L", "o", "c", "k", "s", "c", "r", "e", "e", "n", "=", "t", "r", "u", "e">>)
    \/ Contains(out1.stdout, <<"m", "D", "r", "e", "a", "m", "i", "n", "g", "L", "o", "c", "k", "s", "c", "r", "e", "e", "n", "=", "f", "a", "l", "s", "e">>)

\* the loop of _get_battery_level over the lines of the output
RECURSIVE BatteryOfLines(_)
BatteryOfLines(lines) ==
    IF lines = <<>> THEN Value(PyNone)
    ELSE IF Contains(Lower(Head(lines)), <<"l", "e", "v", "e", "l", ":">>)
    THEN LET parts == SplitOn(Head(lines), ":")
             level == IntOfChars(Strip(parts[Len(parts)]))
         IN  IF level.ok THEN Value(PyInt(level.v)) ELSE Escaped(level.exc)
    ELSE BatteryOfLines(Tail(lines))

\* _get_battery_level, given the outcome of "dumpsys battery"
_get_battery_level(out) ==
    Caught(IF out.exc # "none" THEN Escaped(out.exc)
           ELSE BatteryOfLines(SplitOn(out.stdout, "\n")),
           PyNone)

\* _get_current_app, given the outcome of "dumpsys window | grep mCurrentFocus"
_get_current_app(out) ==
    LET output == out.stdout
        start == Find(output, "{")
        end == Find(output, "/")
        parts == SplitWords(SubSeq(output, start + 1, end))
        body ==
            IF out.exc # "none" THEN Escaped(out.exc)
            ELSE IF Contains(output, <<"/">>) /\ start # -1 /\ end # -1 /\ parts # <<>>
            THEN Value(PyStr(parts[Len(parts)]))
            ELSE Value(PyNone)
    IN  Caught(body, PyNone)

\* DeviceState(...)
DeviceState(connected, screen, lock, battery, app) ==
    [is_connected |-> connected, screen_state |-> screen, lock_state |-> lock,
     battery_level |-> battery, current_app |-> app]

\* a DeviceState.is_ready that does not look at the lock
is_ready_IgnoringLock(s) == s.is_connected /\ s.screen_state = ScreenON

\* DeviceState.is_ready
is_ready(s) ==
    s.is_connected /\ s.screen_state = ScreenON /\ s.lock_state = LockUNLOCKED

\* what a run_adb_command call can end with besides returning
AdbFailures == {Failed("TimeoutExpired"), Failed("FileNotFoundError")}

\* "adb get-state": the state of the device, nothing on stdout when there is
\* no device (the error goes to stderr)
ConnectionOutcomes ==
    {Returned(<<"d", "e", "v", "i", "c", "e", "\n">>), Returned(<<"o", "f", "f", "l", "i", "n", "e", "\n">>), Returned(<<"u", "n", "k", "n", "o", "w", "n", "\n">>),
     Returned(<<>>)} \cup AdbFailures

ScreenOutcomes1 ==
    {Returned(<<" ", " ", "m", "S", "c", "r", "e", "e", "n", "O", "n", "=", "t", "r", "u", "e", "\n">>), Returned(<<" ", " ", "m", "S", "c", "r", "e", "e", "n", "O", "n", "=", "f", "a", "l", "s", "e", "\n">>),
     Returned(<<"D", "i", "s", "p", "l", "a", "y", " ", "P", "o", "w", "e", "r", ":", " ", "s", "t", "a", "t", "e", "=", "O", "N", "\n">>), Returned(<<"D", "i", "s", "p", "l", "a", "y", " ", "P", "o", "w", "e", "r", ":", " ", "s", "t", "a", "t", "e", "=", "O", "F", "F", "\n">>),
     Returned(<<>>)} \cup AdbFailures

ScreenOutcomes2 ==
    {Returned(<<" ", " ", "m", "S", "c", "r", "e", "e", "n", "S", "t", "a", "t", "e", "=", "O", "N", "\n">>), Returned(<<" ", " ", "m", "S", "c", "r", "e", "e", "n", "S", "t", "a", "t", "e", "=", "O", "F", "F", "\n">>),
     Returned(<<" ", " ", "m", "S", "c", "r", "e", "e", "n", "S", "t", "a", "t", "e", "=", "D", "O", "Z", "E", "\n">>), Failed("TimeoutExpired")}

LockOutcomes1 ==
    {Returned(<<" ", " ", "m", "S", "h", "o", "w", "i", "n", "g", "D", "r", "e", "a", "m", "=", "f", "a", "l", "s", "e", " ", "m", "D", "r", "e", "a", "m", "i", "n", "g", "L", "o", "c", "k", "s", "c", "r", "e", "e", "n", "=", "t", "r", "u", "e", "\n">>),
     Returned(<<" ", " ", "m", "S", "h", "o", "w", "i", "n", "g", "D", "r", "e", "a", "m", "=", "f", "a", "l", "s", "e", " ", "m", "D", "r", "e", "a", "m", "i", "n", "g", "L", "o", "c", "k", "s", "c", "r", "e", "e", "n", "=", "f", "a", "l", "s", "e", "\n">>),
     Returned(<<>>), Failed("TimeoutExpired")}

LockOutcomes2 ==
    {Returned(<<" ", " ", "m", "S", "h", "o", "w", "i", "n", "g", "L", "o", "c", "k", "s", "c", "r", "e", "e", "n", "=", "t", "r", "u", "e", "\n">>), Returned(<<" ", " ", "m", "S", "h", "o", "w", "i", "n", "g", "L", "o", "c", "k", "s", "c", "r", "e", "e", "n", "=", "f", "a", "l", "s", "e", "\n">>),
     Returned(<<" ", " ", "i", "s", "S", "h", "o", "w", "i", "n", "g", "=", "?", "\n">>), Failed("TimeoutExpired")}

BatteryOutcomes ==
    {Returned(<<" ", " ", "l", "e", "v", "e", "l", ":", " ", "8", "5", "\n">>), Returned(<<" ", " ", "l", "e", "v", "e", "l", ":", " ", "5", "\n">>),
     Returned(<<" ", " ", "M", "a", "x", " ", "c", "h", "a", "r", "g", "i", "n", "g", " ", "l", "e", "v", "e", "l", ":", " ", "7", "\n", " ", " ", "l", "e", "v", "e", "l", ":", " ", "1", "0", "0", "\n">>),
     Returned(<<" ", " ", "l", "e", "v", "e", "l", ":", " ", "n", "/", "a", "\n">>), Returned(<<" ", " ", "l", "e", "v", "e", "l", ":", "\n">>), Returned(<<>>),
     Returned(<<" ", " ", "l", "e", "v", "e", "l", ":", " ", "1", "5", "0", "\n">>), Returned(<<" ", " ", "l", "e", "v", "e", "l", ":", " ", "-", "5", "\n">>)}
        \cup AdbFailures

CurrentAppOutcomes ==
    {Returned(<<" ", " ", "m", "C", "u", "r", "r", "e", "n", "t", "F", "o", "c", "u", "s", "=", "W", "i", "n", "d", "o", "w", "{", "1", "a", "2", "b", " ", "u", "0", " ", "c", "o", "m", ".", "a", "n", "d", "r", "o", "i", "d", ".", "c", "h", "r", "o", "m", "e", "/", "o", "r", "g", ".", "M", "a", "i", "n", "}", "\n">>),
     Returned(<<" ", " ", "m", "C", "u", "r", "r", "e", "n", "t", "F", "o", "c", "u", "s", "=", "W", "i", "n", "d", "o", "w", "{", "9", "f", " ", "u", "0", " ", "c", "o", "m", ".", "a", "p", "p", "/", ".", "H", "o", "m", "e", "}", "\n">>),
     Returned(<<" ", " ", "m", "C", "u", "r", "r", "e", "n", "t", "F", "o", "c", "u", "s", "=", "n", "u", "l", "l", "\n">>),
     Returned(<<" ", " ", "a", "/", "b", " ", "W", "i", "n", "d", "o", "w", "{", "c", "}", "\n">>),
     Returned(<<>>)} \cup AdbFailures

\* one run_adb_command call, as the probe's log keeps it
Command(args, out) == [args |-> args, out |-> out]

NoState == <<>>

\* check_device_state(device_id) is called
StartProbe ==
    /\ ppc = "idle"
    /\ ppc' = "connection"
    /\ issued' = <<>>
    /\ state' = NoState
    /\ probe_raised' = "none"
    /\ UNCHANGED <<screen_state, lock_state, battery_level, current_app>>
    /\ UNCHANGED outsideProbe

\* is_connected = _check_connection(device_id), and the early return
CheckConnection(out) ==
    /\ ppc = "connection"
    /\ issued' = Append(issued, Command("get-state", out))
    /\ LET r == _check_connection(out)
       IN  IF r.exc # "none"
           THEN ppc' = "raised" /\ probe_raised' = r.exc /\ state' = NoState
           ELSE IF ~r.v
           THEN /\ state' = DeviceState(FALSE, ScreenUNKNOWN, LockUNKNOWN, PyNone, PyNone)
                /\ ppc' = "done"
                /\ UNCHANGED probe_raised
           ELSE ppc' = "screen" /\ UNCHANGED <<state, probe_raised>>
    /\ UNCHANGED <<screen_state, lock_state, battery_level, current_app>>
    /\ UNCHANGED outsideProbe

\* screen_state = _get_screen_state(device_id)
GetScreenState(out1, out2) ==
    /\ ppc = "screen"
    /\ issued' = issued \o <<Command("dumpsys power", out1)>>
                    \o (IF ScreenSettledFirst(out1) THEN <<>>
                        ELSE <<Command("dumpsys display", out2)>>)
    /\ LET r == _get_screen_state(out1, out2)
       IN  IF r.exc # "none"
           THEN ppc' = "raised" /\ probe_raised' = r.exc /\ UNCHANGED screen_state
           ELSE ppc' = "lock" /\ screen_state' = r.v /\ UNCHANGED probe_raised
    /\ UNCHANGED <<lock_state, battery_level, current_app, state>>
    /\ UNCHANGED outsideProbe

\* lock_state = _get_lock_state(device_id)
GetLockState(out1, out2) ==
    /\ ppc = "lock"
    /\ issued' = issued \o <<Command("dumpsys window lockscreen", out1)>>
                    \o (IF LockSettledFirst(out1) THEN <<>>
                        ELSE <<Command("dumpsys window showing", out2)>>)
    /\ LET r == _get_lock_state(out1, out2)
       IN  IF r.exc # "none"
           THEN ppc' = "raised" /\ probe_raised' = r.exc /\ UNCHANGED lock_state
           ELSE ppc' = "battery" /\ lock_state' = r.v /\ UNCHANGED probe_raised
    /\ UNCHANGED <<screen_state, battery_level, current_app, state>>
    /\ UNCHANGED outsideProbe

\* battery_level = _get_battery_level(device_id)
GetBatteryLevel(out) ==
    /\ ppc = "battery"
    /\ issued' = Append(issued, Command("dumpsys battery", out))
    /\ LET r == _get_battery_level(out)
       IN  IF r.exc # "none"
           THEN ppc' = "raised" /\ probe_raised' = r.exc /\ UNCHANGED battery_level
           ELSE ppc' = "app" /\ battery_level' = r.v /\ UNCHANGED probe_raised
    /\ UNCHANGED <<screen_state, lock_state, current_app, state>>
    /\ UNCHANGED outsideProbe

\* current_app = _get_current_app(device_id), then the DeviceState is built
\* and returned
GetCurrentApp(out) ==
    /\ ppc = "app"
    /\ issued' = Append(issued, Command("dumpsys window focus", out))
    /\ LET r == _get_current_app(out)
       IN  IF r.exc # "none"
           THEN /\ ppc' = "raised" /\ probe_raised' = r.exc
                /\ UNCHANGED <<current_app, state>>
           ELSE /\ ppc' = "done"
                /\ current_app' = r.v
                /\ state' = DeviceState(TRUE, screen_state, lock_state, battery_level, r.v)
                /\ UNCHANGED probe_raised
    /\ UNCHANGED <<screen_state, lock_state, battery_level>>
    /\ UNCHANGED outsideProbe

\* a DeviceState built directly by a caller of the dataclass
NewDeviceState ==
    /\ ppc = "idle"
    /\ \E c \in BOOLEAN, s \in {ScreenON, ScreenOFF, ScreenUNKNOWN},
          l \in {LockUNLOCKED, LockLOCKED, LockUNKNOWN},
          b \in {PyNone, PyInt(5), PyInt(85)},
          a \in {PyNone, PyStr(<<"c", "o", "m", ".", "a", "p", "p">>)} :
            state' = DeviceState(c, s, l, b, a)
    /\ ppc' = "built"
    /\ UNCHANGED <<issued, screen_state, lock_state, battery_level, current_app, probe_raised>>
    /\ UNCHANGED outsideProbe

ProbeConnection == \E out \in ConnectionOutcomes : CheckConnection(out)

ProbeScreen == \E out1 \in ScreenOutcomes1, out2 \in ScreenOutcomes2 : GetScreenState(out1, out2)

ProbeLock == \E out1 \in LockOutcomes1, out2 \in LockOutcomes2 : GetLockState(out1, out2)

ProbeBattery == \E out \in BatteryOutcomes : GetBatteryLevel(out)

ProbeApp == \E out \in CurrentAppOutcomes : GetCurrentApp(out)

\* the validation pipeline is not running
ValIdle ==
    /\ action = NoDict
    /\ pc = "idle"
    /\ sanitized = NoDict
    /\ sanitized2 = NoDict
    /\ result = NoResult
    /\ result2 = NoResult
    /\ raised = "none"

InitProbe == ValIdle /\ ApiIdle /\ ProbeIdle /\ LoopIdle /\ ParseIdle /\ ServeIdle /\ TaskIdle /\ RetryIdle /\ TreeIdle

NextProbe ==
    \/ StartProbe
    \/ ProbeConnection
    \/ ProbeScreen
    \/ ProbeLock
    \/ ProbeBattery
    \/ ProbeApp
    \/ NewDeviceState

SpecProbe == InitProbe /\ [][NextProbe]_vars

-----------------------------------------------------------------------------
(* Properties of the device readiness probe *)

\* adb get-state answered "device"
ReportsConnected(out) == out.exc = "none" /\ Strip(out.stdout) = <<"d", "e", "v", "i", "c", "e">>

\* the commands of the log whose name is in names
RECURSIVE CommandsOf(_, _)
CommandsOf(log, names) ==
    IF log = <<>> THEN <<>>
    ELSE (IF Head(log).args \in names THEN <<Head(log)>> ELSE <<>>)
            \o CommandsOf(Tail(log), names)

AnyFailed(cmds) == \E i \in 1..Len(cmds) : cmds[i].out.exc # "none"

NotConnectedState == DeviceState(FALSE, ScreenUNKNOWN, LockUNKNOWN, PyNone, PyNone)

\* C11: when adb get-state does not answer "device", or the call fails, the
\* probe returns the not-connected state with every other field Unknown/None
\* and has issued no command besides get-state.
C11_NotConnectedShortCircuits ==
    (ppc \notin {"idle", "built", "connection"} /\ ~ReportsConnected(issued[1].out))
        => /\ ppc = "done"
           /\ state = NotConnectedState
           /\ Len(issued) = 1
           /\ issued[1].args = "get-state"

\* the connectivity command timed out and the probe returned
C11_Witness ==
    /\ ppc = "done"
    /\ issued[1].out = Failed("TimeoutExpired")
    /\ ~state.is_connected

\* what each sample output says about the screen, the lock, the battery and
\* the foreground app (nothing for an output that is not listed)
ScreenReadings ==
    {<<<<" ", " ", "m", "S", "c", "r", "e", "e", "n", "O", "n", "=", "t", "r", "u", "e", "\n">>, ScreenON>>, <<<<" ", " ", "m", "S", "c", "r", "e", "e", "n", "O", "n", "=", "f", "a", "l", "s", "e", "\n">>, ScreenOFF>>,
     <<<<"D", "i", "s", "p", "l", "a", "y", " ", "P", "o", "w", "e", "r", ":", " ", "s", "t", "a", "t", "e", "=", "O", "N", "\n">>, ScreenON>>, <<<<"D", "i", "s", "p", "l", "a", "y", " ", "P", "o", "w", "e", "r", ":", " ", "s", "t", "a", "t", "e", "=", "O", "F", "F", "\n">>, ScreenOFF>>,
     <<<<" ", " ", "m", "S", "c", "r", "e", "e", "n", "S", "t", "a", "t", "e", "=", "O", "N", "\n">>, ScreenON>>, <<<<" ", " ", "m", "S", "c", "r", "e", "e", "n", "S", "t", "a", "t", "e", "=", "O", "F", "F", "\n">>, ScreenOFF>>}

LockReadings ==
    {<<<<" ", " ", "m", "S", "h", "o", "w", "i", "n", "g", "D", "r", "e", "a", "m", "=", "f", "a", "l", "s", "e", " ", "m", "D", "r", "e", "a", "m", "i", "n", "g", "L", "o", "c", "k", "s", "c", "r", "e", "e", "n", "=", "t", "r", "u", "e", "\n">>, LockLOCKED>>,
     <<<<" ", " ", "m", "S", "h", "o", "w", "i", "n", "g", "D", "r", "e", "a", "m", "=", "f", "a", "l", "s", "e", " ", "m", "D", "r", "e", "a", "m", "i", "n", "g", "L", "o", "c", "k", "s", "c", "r", "e", "e", "n", "=", "f", "a", "l", "s", "e", "\n">>, LockUNLOCKED>>,
     <<<<" ", " ", "m", "S", "h", "o", "w", "i", "n", "g", "L", "o", "c", "k", "s", "c", "r", "e", "e", "n", "=", "t", "r", "u", "e", "\n">>, LockLOCKED>>,
     <<<<" ", " ", "m", "S", "h", "o", "w", "i", "n", "g", "L", "o", "c", "k", "s", "c", "r", "e", "e", "n", "=", "f", "a", "l", "s", "e", "\n">>, LockUNLOCKED>>}

BatteryReadings ==
    {<<<<" ", " ", "l", "e", "v", "e", "l", ":", " ", "8", "5", "\n">>, PyInt(85)>>, <<<<" ", " ", "l", "e", "v", "e", "l", ":", " ", "5", "\n">>, PyInt(5)>>,
     <<<<" ", " ", "M", "a", "x", " ", "c", "h", "a", "r", "g", "i", "n", "g", " ", "l", "e", "v", "e", "l", ":", " ", "7", "\n", " ", " ", "l", "e", "v", "e", "l", ":", " ", "1", "0", "0", "\n">>, PyInt(7)>>,
     <<<<" ", " ", "l", "e", "v", "e", "l", ":", " ", "1", "5", "0", "\n">>, PyInt(150)>>, <<<<" ", " ", "l", "e", "v", "e", "l", ":", " ", "-", "5", "\n">>, PyInt(-5)>>}

AppReadings ==
    {<<<<" ", " ", "m", "C", "u", "r", "r", "e", "n", "t", "F", "o", "c", "u", "s", "=", "W", "i", "n", "d", "o", "w", "{", "1", "a", "2", "b", " ", "u", "0", " ", "c", "o", "m", ".", "a", "n", "d", "r", "o", "i", "d", ".", "c", "h", "r", "o", "m", "e", "/", "o", "r", "g", ".", "M", "a", "i", "n", "}", "\n">>,
       PyStr(<<"c", "o", "m", ".", "a", "n", "d", "r", "o", "i", "d", ".", "c", "h", "r", "o", "m", "e">>)>>,
     <<<<" ", " ", "m", "C", "u", "r", "r", "e", "n", "t", "F", "o", "c", "u", "s", "=", "W", "i", "n", "d", "o", "w", "{", "9", "f", " ", "u", "0", " ", "c", "o", "m", ".", "a", "p", "p", "/", ".", "H", "o", "m", "e", "}", "\n">>, PyStr(<<"c", "o", "m", ".", "a", "p", "p">>)>>}

\* the field a diagnostic yields from the commands it ran: the fallback when
\* one of them failed or none of them has a reading, else the first reading
Expected(cmds, readings, fallback) ==
    LET read == {i \in 1..Len(cmds) : \E r \in readings : r[1] = cmds[i].out.stdout}
        first == CHOOSE i \in read : \A j \in read : i <= j
    IN  IF AnyFailed(cmds) \/ read = {} THEN fallback
        ELSE (CHOOSE r \in readings : r[1] = cmds[first].out.stdout)[2]

\* C12: in a probe of a connected device no diagnostic failure aborts the
\* probe; a diagnostic that failed (exception, timeout, unparsable output)
\* leaves its own field Unknown/None, and every field is what the output of
\* its own diagnostic says, whatever happened to the other diagnostics.
C12_DiagnosticFailuresIsolated ==
    /\ ppc # "raised"
    /\ (ppc = "done" /\ ReportsConnected(issued[1].out))
        => /\ state.is_connected
           /\ state.screen_state =
                Expected(CommandsOf(issued, {"dumpsys power", "dumpsys display"}),
                         ScreenReadings, ScreenUNKNOWN)
           /\ state.lock_state =
                Expected(CommandsOf(issued, {"dumpsys window lockscreen",
                                             "dumpsys window showing"}),
                         LockReadings, LockUNKNOWN)
           /\ state.battery_level =
                Expected(CommandsOf(issued, {"dumpsys battery"}), BatteryReadings, PyNone)
           /\ state.current_app =
                Expected(CommandsOf(issued, {"dumpsys window focus"}), AppReadings, PyNone)

\* the battery diagnostic timed out, the lock diagnostic's second command
\* failed, and the screen and the foreground app were still read
C12_Witness ==
    /\ ppc = "done"
    /\ state.is_connected
    /\ AnyFailed(CommandsOf(issued, {"dumpsys battery"}))
    /\ AnyFailed(CommandsOf(issued, {"dumpsys window showing"}))
    /\ state.battery_level = PyNone
    /\ state.lock_state = LockUNKNOWN
    /\ state.screen_state = ScreenON
    /\ state.current_app = PyStr(<<"c", "o", "m", ".", "a", "p", "p">>)

\* C13: is_ready is true exactly when the device is connected, the screen is
\* On and the lock is Unlocked; a state that is not connected or has an
\* Unknown screen or lock is not ready; battery_level and current_app do not
\* matter.
C13_ReadyIffConnectedOnUnlocked ==
    state # NoState
        => /\ is_ready(state) <=>
                (state.is_connected /\ state.screen_state = ScreenON
                    /\ state.lock_state = LockUNLOCKED)
           /\ (~state.is_connected \/ state.screen_state = ScreenUNKNOWN
                    \/ state.lock_state = LockUNKNOWN) => ~is_ready(state)
           /\ \A b \in {PyNone, PyInt(0), PyInt(100)}, a \in {PyNone, PyStr(<<"x">>)} :
                is_ready([state EXCEPT !.battery_level = b, !.current_app = a])
                    = is_ready(state)

\* a probe returned a state with the screen on but the device locked, which
\* is not ready
C13_Witness ==
    /\ ppc = "done"
    /\ state.is_connected /\ state.screen_state = ScreenON
    /\ state.lock_state = LockLOCKED
    /\ ~is_ready(state)

-----------------------------------------------------------------------------
(* The execution control loop (PhoneAgent.run / step).  Its source is not   *)
(* among the files of the repository at hand; the transition below is the   *)
(* single-step transition of the design, steps 1 to 6, over the validator   *)
(* and the sanitizer modelled above.                                        *)

MaxStepsBound == 3
MaxRetryBound == 2

Terminal == {"Finished", "Failed", "MaxStepsExceeded"}

Awaiting == {"AwaitingConfirmation", "AwaitingTakeover"}

\* directives a model reply can carry
D_Tap == MkDict([NoFields EXCEPT !._metadata = M_do, !.action = PyStr(A_Tap),
                                 !.element = GoodCoord])

D_TapFar == MkDict([NoFields EXCEPT !._metadata = M_do, !.action = PyStr(Lower(A_Tap)),
                                    !.element = PyList(<<PyInt(1500), PyInt(200)>>)])

D_TapNoElement == MkDict([NoFields EXCEPT !._metadata = M_do, !.action = PyStr(A_Tap)])

D_Fly == MkDict([NoFields EXCEPT !._metadata = M_do, !.action = PyStr(<<"F", "l", "y">>)])

D_WaitNegative == MkDict([NoFields EXCEPT !._metadata = M_do, !.action = PyStr(A_Wait),
                                      !.duration = PyStr(<<"-", "3">>)])

D_TakeOver == MkDict([NoFields EXCEPT !._metadata = M_do, !.action = PyStr(A_Take_over),
                                      !.message = SomeText])

D_Finish == MkDict([NoFields EXCEPT !._metadata = M_finish, !.message = SomeText])

\* what one request to the model collaborator can end with: a failure or a
\* timeout of the call, a text that does not parse, or a text that parses to
\* a directive, which the confirmation policy classifies as sensitive or not
ModelFailure == [kind |-> "model_failure", d |-> NoDict, sensitive |-> FALSE]

Malformed == [kind |-> "parse_error", d |-> NoDict, sensitive |-> FALSE]

Parsed(d, sensitive) == [kind |-> "parsed", d |-> d, sensitive |-> sensitive]

Proposals ==
    {ModelFailure, Malformed}
        \cup {Parsed(d, FALSE) : d \in {D_Tap, D_TapFar, D_TapNoElement, D_Fly, D_WaitNegative,
                                        D_TakeOver, D_Finish}}
        \cup {Parsed(d, TRUE) : d \in {D_Tap, D_TapFar, D_TapNoElement}}

\* the ValidationResult lets the directive through
Passed(v) == v.exc = "none" /\ v.is_valid

\* step 3: sanitize, then validate
Validated3(s) ==
    IF s.exc # "none" THEN [ok |-> FALSE, d |-> NoDict]
    ELSE [ok |-> Passed(validate_action(s.d)), d |-> s.d]

Checked(d) == Validated3(sanitize_action(d))

\* the error a proposal ends the attempt with, "none" for a validated
\* directive; c is the outcome of step 3 on the proposal's directive
ErrorOf(p, c) ==
    CASE p.kind = "model_failure" -> "ModelError"
      [] p.kind = "parse_error" -> "ParseError"
      [] ~c.ok -> "ValidationError"
      [] OTHER -> "none"

IsFinish(d) == d["_metadata"] = M_finish

IsTakeOver(d) == d["_metadata"] = M_do /\ d["action"] = PyStr(A_Take_over)

\* a loop that gives up at the first error
CanRetry_Never(used) == FALSE

\* another attempt is allowed after used retries
CanRetry(used) == used < retry_count

\* a loop that dispatches whatever the decision
DispatchAfter_Always(decision) == TRUE

\* the decision supplied for a sensitive directive lets it through
DispatchAfter(decision) == decision

\* a step 6 that stops one step late
EndStep_LateStop(outcome) ==
    /\ step_count' = step_count + 1
    /\ session_status' = IF step_count + 1 > max_steps THEN "MaxStepsExceeded" ELSE "Running"
    /\ history' = Append(history, outcome)
    /\ retries' = 0
    /\ feedback' = "none"
    /\ pending' = NoDict

\* step 6 for a directive that is not Finish: count the step, stop at the limit
EndStep(outcome) ==
    /\ step_count' = step_count + 1
    /\ session_status' = IF step_count + 1 >= max_steps THEN "MaxStepsExceeded" ELSE "Running"
    /\ history' = Append(history, outcome)
    /\ retries' = 0
    /\ feedback' = "none"
    /\ pending' = NoDict

\* steps 1 to 3 of one attempt, and steps 4 to 6 when the directive validates
AttemptOn(p, delivered, d, error) ==
    /\ session_status = "Running"
    /\ IF error # "none"
       THEN /\ IF CanRetry(retries)
               THEN /\ retries' = retries + 1
                    /\ feedback' = error
                    /\ UNCHANGED <<session_status, history>>
               ELSE /\ session_status' = "Failed"
                    /\ history' = Append(history, error)
                    /\ UNCHANGED <<retries, feedback>>
            /\ last_error' = error
            /\ UNCHANGED <<step_count, pending, dispatched, signals>>
       ELSE IF p.sensitive
                THEN /\ session_status' = "AwaitingConfirmation"
                     /\ pending' = d
                     /\ UNCHANGED <<step_count, retries, feedback, history, dispatched,
                                    signals, last_error>>
                ELSE IF IsTakeOver(d)
                THEN /\ session_status' = "AwaitingTakeover"
                     /\ pending' = d
                     /\ UNCHANGED <<step_count, retries, feedback, history, dispatched,
                                    signals, last_error>>
                ELSE /\ dispatched' = Append(dispatched, d)
                     /\ IF IsFinish(d)
                        THEN /\ session_status' = "Finished"
                             /\ history' = Append(history, "finish")
                             /\ UNCHANGED <<step_count, retries, feedback, pending, last_error>>
                        ELSE /\ EndStep(IF delivered THEN "success" ELSE "ActionDispatchFailure")
                             /\ last_error' = IF delivered THEN last_error
                                              ELSE "ActionDispatchFailure"
                     /\ UNCHANGED signals
    /\ UNCHANGED <<max_steps, retry_count>>
    /\ UNCHANGED outsideLoop

\* one attempt on the reply p of the model; a parsed directive goes through
\* step 3 first
AttemptChecked(p, delivered, c) == AttemptOn(p, delivered, c.d, ErrorOf(p, c))

Attempt(p, delivered) ==
    AttemptChecked(p, delivered,
                   IF p.kind = "parsed" THEN Checked(p.d) ELSE [ok |-> FALSE, d |-> NoDict])

\* the confirmation decision arrives
Confirm(decision, delivered) ==
    /\ session_status = "AwaitingConfirmation"
    /\ signals' = Append(signals, IF decision THEN "yes" ELSE "no")
    /\ IF DispatchAfter(decision)
       THEN /\ dispatched' = Append(dispatched, pending)
            /\ EndStep(IF delivered THEN "success" ELSE "ActionDispatchFailure")
            /\ last_error' = IF delivered THEN last_error ELSE "ActionDispatchFailure"
       ELSE /\ EndStep("ConfirmationDenied")
            /\ last_error' = "ConfirmationDenied"
            /\ UNCHANGED dispatched
    /\ UNCHANGED <<max_steps, retry_count>>
    /\ UNCHANGED outsideLoop

\* the "operation complete" signal arrives
TakeoverDone ==
    /\ session_status = "AwaitingTakeover"
    /\ signals' = Append(signals, "done")
    /\ EndStep("takeover")
    /\ UNCHANGED <<dispatched, last_error, max_steps, retry_count>>
    /\ UNCHANGED outsideLoop

ModelReplies == \E p \in Proposals, delivered \in BOOLEAN : Attempt(p, delivered)

DecisionArrives == \E decision \in BOOLEAN, delivered \in BOOLEAN : Confirm(decision, delivered)

\* a session is created: Running, step_count = 0, with its configuration
InitLoop ==
    /\ ValIdle /\ ApiIdle /\ ProbeIdle /\ ParseIdle /\ ServeIdle /\ TaskIdle /\ RetryIdle /\ TreeIdle
    /\ max_steps \in 1..MaxStepsBound
    /\ retry_count \in 0..MaxRetryBound
    /\ session_status = "Running"
    /\ step_count = 0
    /\ retries = 0
    /\ feedback = "none"
    /\ pending = NoDict
    /\ dispatched = <<>>
    /\ history = <<>>
    /\ signals = <<>>
    /\ last_error = "none"

NextLoop == ModelReplies \/ DecisionArrives \/ TakeoverDone

SpecLoop == InitLoop /\ [][NextLoop]_vars

\* the model call, the device command and the two callbacks all return
SpecLoopFair == SpecLoop /\ WF_vars(NextLoop)


-----------------------------------------------------------------------------
(* Properties of the control loop *)

\* a step that was not Finish has been completed by this transition
StepCompleted == Len(history') = Len(history) + 1 /\ history'[Len(history')] # "finish"

C15_NoDispatchWithoutConfirmation ==
    [][/\ session_status' \in Awaiting => dispatched' = dispatched
       /\ (session_status \in Awaiting /\ session_status' # session_status)
            => /\ Len(signals') = Len(signals) + 1
               /\ signals'[Len(signals')] \in
                    (IF session_status = "AwaitingConfirmation" THEN {"yes", "no"}
                     ELSE {"done"})
       /\ (session_status \in Awaiting /\ signals' = signals)
            => UNCHANGED <<session_status, dispatched, pending>>
       /\ (session_status = "AwaitingConfirmation" /\ signals' # signals)
            => IF signals'[Len(signals')] = "yes"
               THEN dispatched' = Append(dispatched, pending)
               ELSE dispatched' = dispatched /\ history'[Len(history')] = "ConfirmationDenied"
       /\ session_status = "AwaitingTakeover" => dispatched' = dispatched
       /\ \A i \in 1..Len(dispatched') : ~IsTakeOver(dispatched'[i])]_vars

\* a sensitive directive was refused and nothing has been dispatched
C15_Witness ==
    /\ Len(signals) >= 1 /\ signals[Len(signals)] = "no"
    /\ history # <<>> /\ history[Len(history)] = "ConfirmationDenied"
    /\ dispatched = <<>>

\* C16: an attempt that ends with a parse or validation error leaves the
\* session running and is retried with the error fed back, as long as retries
\* are left; at most retry_count retries are made in a step; the step fails
\* only when they are used up; and every dispatched directive passes
\* validate_action.
C16_ErrorsRetriedNeverDispatched ==
    /\ [](/\ retries <= retry_count
          /\ \A i \in 1..Len(dispatched) :
                /\ validate_action(dispatched[i]).exc = "none"
                /\ validate_action(dispatched[i]).is_valid)
    /\ [][/\ retries' = retries + 1
            => /\ session_status' = "Running"
               /\ feedback' \in {"ParseError", "ValidationError", "ModelError"}
               /\ UNCHANGED <<dispatched, step_count>>
          /\ (session_status = "Running" /\ session_status' = "Failed")
            => /\ retries = retry_count
               /\ dispatched' = dispatched
          /\ (session_status = "Running" /\ retries < retry_count)
            => session_status' # "Failed"]_vars

\* the last of two retries is running after a validation error
C16_Witness ==
    /\ session_status = "Running"
    /\ retries = 2
    /\ retry_count = 2
    /\ feedback = "ValidationError"

-----------------------------------------------------------------------------
(* actions/handler.py: parse_action, the safe parser of the model's reply.  *)
(* The result is [exc, d]: the exception raised ("none" when it returns)    *)
(* and the dict returned.                                                   *)

\* the spelling of the keys of a directive
KeySpelling ==
    [action |-> <<"a", "c", "t", "i", "o", "n">>, element |-> <<"e", "l", "e", "m", "e", "n", "t">>, start |-> <<"s", "t", "a", "r", "t">>,
     end |-> <<"e", "n", "d">>, text |-> <<"t", "e", "x", "t">>, app |-> <<"a", "p", "p">>, message |-> <<"m", "e", "s", "s", "a", "g", "e">>,
     duration |-> <<"d", "u", "r", "a", "t", "i", "o", "n">>, instruction |-> <<"i", "n", "s", "t", "r", "u", "c", "t", "i", "o", "n">>]

\* the dict key of a name that is none of the above
OtherKey == "other"

KeyName(chars) ==
    IF \E k \in DOMAIN KeySpelling : KeySpelling[k] = chars
    THEN CHOOSE k \in DOMAIN KeySpelling : KeySpelling[k] = chars
    ELSE OtherKey

IsIdentChar(c) ==
    \/ c = "_"
    \/ IsDigit(c)
    \/ \E i \in 1..26 : LowerLetters[i] = c \/ UpperLetters[i] = c

\* s without its first k characters
Drop(s, k) == SubSeq(s, k + 1, Len(s))

\* s.startswith(p)
StartsWith(s, p) == Len(s) >= Len(p) /\ SubSeq(s, 1, Len(p)) = p

\* the length of the longest prefix of s made of characters that satisfy Is
SpanLen(s, Is(_)) ==
    CHOOSE n \in 0..Len(s) : /\ \A i \in 1..n : Is(s[i])
                             /\ n = Len(s) \/ ~Is(s[n + 1])

\* the text does not match the grammar
NoMatch == [ok |-> FALSE, v |-> PyNone, rest |-> <<>>]

Match(v, rest) == [ok |-> TRUE, v |-> v, rest |-> rest]

\* where a quoted string that was opened with q ends: at the last q of the
\* text (a greedy match)
CloseOfQuote_Last(body, q) ==
    IF \E i \in 1..Len(body) : body[i] = q
    THEN CHOOSE i \in 1..Len(body) : body[i] = q /\ \A j \in (i + 1)..Len(body) : body[j] # q
    ELSE 0

\* where a quoted string that was opened with q ends: at the next q, there
\* are no escapes; 0 when the string is not closed
CloseOfQuote(body, q) == Find(body, q) + 1

\* a quoted string, in single or double quotes
ParseQuoted(s) ==
    LET close == CloseOfQuote(Tail(s), Head(s))
    IN  IF close = 0 THEN NoMatch
        ELSE Match(PyStr(SubSeq(Tail(s), 1, close - 1)), Drop(Tail(s), close))

\* a number: digits, with an optional sign
ParseNumber(s) ==
    LET neg == s # <<>> /\ Head(s) = "-"
        body == IF neg THEN Tail(s) ELSE s
        n == SpanLen(body, IsDigit)
    IN  IF n = 0 THEN NoMatch
        ELSE Match(PyInt((IF neg THEN -1 ELSE 1) * DigitsVal(SubSeq(body, 1, n))),
                   Drop(body, n))

\* the second half of a bracketed list, after its first number x
ParseListEnd(x, s) ==
    IF s = <<>> \/ Head(s) # "," THEN NoMatch
    ELSE LET y == ParseNumber(LStrip(Tail(s)))
             end == LStrip(y.rest)
         IN  IF ~y.ok \/ end = <<>> \/ Head(end) # "]" THEN NoMatch
             ELSE Match(PyList(<<x, y.v>>), Tail(end))

\* a bracketed list of two numbers
ParseList(s) ==
    LET x == ParseNumber(LStrip(Tail(s)))
    IN  IF ~x.ok THEN NoMatch ELSE ParseListEnd(x.v, LStrip(x.rest))

\* a bare identifier, copied as text
ParseIdentifier(s) ==
    LET n == SpanLen(s, IsIdentChar)
    IN  IF n = 0 THEN NoMatch ELSE Match(PyStr(SubSeq(s, 1, n)), Drop(s, n))

\* one value: a quoted string, a bracketed list, a number or an identifier
ParseValue(s) ==
    IF s = <<>> THEN NoMatch
    ELSE IF Head(s) \in {"\"", "'"} THEN ParseQuoted(s)
    ELSE IF Head(s) = "[" THEN ParseList(s)
    ELSE IF Head(s) = "-" \/ IsDigit(Head(s)) THEN ParseNumber(s)
    ELSE ParseIdentifier(s)

\* the comma-separated key=value pairs up to the closing parenthesis, added
\* to the dict acc; whatever follows the parenthesis is left in rest
RECURSIVE ParsePairs(_, _)
ParsePairs(s0, acc) ==
    LET s == LStrip(s0)
        n == SpanLen(s, IsIdentChar)
        eq == LStrip(Drop(s, n))
        val == ParseValue(LStrip(Tail(eq)))
        after == LStrip(val.rest)
    IN  IF s = <<>> THEN NoMatch
        ELSE IF Head(s) = ")" THEN Match(acc, Tail(s))
        ELSE IF n = 0 \/ eq = <<>> \/ Head(eq) # "=" THEN NoMatch
        ELSE IF ~val.ok \/ after = <<>> THEN NoMatch
        ELSE IF Head(after) = ","
             THEN ParsePairs(Tail(after), Put(acc, KeyName(SubSeq(s, 1, n)), val.v))
        ELSE IF Head(after) = ")"
             THEN Match(Put(acc, KeyName(SubSeq(s, 1, n)), val.v), Tail(after))
        ELSE NoMatch

ParseError == [exc |-> "ValueError", d |-> NoDict]

\* the directive of a matched call: a do(...) call needs an action
DirectiveOrError(m) ==
    IF ~m.ok THEN ParseError
    ELSE IF m.v["_metadata"] = M_do /\ ~Has(m.v, "action") THEN ParseError
    ELSE [exc |-> "none", d |-> m.v]

parse_action(response) ==
    LET s == Strip(response)
    IN  IF StartsWith(s, <<"d", "o", "(">>)
        THEN DirectiveOrError(ParsePairs(Drop(s, 3), [_metadata |-> M_do]))
        ELSE IF StartsWith(s, <<"f", "i", "n", "i", "s", "h", "(">>)
        THEN DirectiveOrError(ParsePairs(Drop(s, 7), [_metadata |-> M_finish]))
        ELSE ParseError

\* a call as the model writes it: its name and its key=value pairs in order
Call(name, pairs) == [name |-> name, pairs |-> pairs]

RenderValue(v, q) ==
    CASE v.t = "str" -> <<q>> \o v.cs \o <<q>>
      [] v.t = "list" -> <<"[">> \o IntChars(v.xs[1].n) \o <<",", " ">> \o IntChars(v.xs[2].n) \o <<"]">>
      [] OTHER -> IntChars(v.n)

RECURSIVE RenderPairs(_, _)
RenderPairs(pairs, q) ==
    IF pairs = <<>> THEN <<>>
    ELSE KeySpelling[pairs[1][1]] \o <<"=">> \o RenderValue(pairs[1][2], q)
            \o (IF Len(pairs) > 1 THEN <<",", " ">> ELSE <<>>) \o RenderPairs(Tail(pairs), q)

\* the text of a call, its strings quoted with q
Render(call, q) == call.name \o <<"(">> \o RenderPairs(call.pairs, q) \o <<")">>

\* the directive a call stands for
RECURSIVE WithPairs(_, _)
WithPairs(d, pairs) ==
    IF pairs = <<>> THEN d ELSE WithPairs(Put(d, pairs[1][1], pairs[1][2]), Tail(pairs))

DirectiveOf(call) == WithPairs([_metadata |-> PyStr(call.name)], call.pairs)

\* the calls of tests/test_phone_agent.py, a bare number, no argument at all,
\* and a string with the separators of the grammar in it
Calls ==
    {Call(<<"d", "o">>, <<<<"action", PyStr(A_Tap)>>,
                   <<"element", PyList(<<PyInt(100), PyInt(200)>>)>> >>),
     Call(<<"d", "o">>, <<<<"action", PyStr(A_Swipe)>>,
                   <<"start", PyList(<<PyInt(0), PyInt(500)>>)>>,
                   <<"end", PyList(<<PyInt(0), PyInt(100)>>)>> >>),
     Call(<<"d", "o">>, <<<<"action", PyStr(A_Type)>>, <<"text", PyStr(<<"H", "e", "l", "l", "o", " ", "W", "o", "r", "l", "d">>)>> >>),
     Call(<<"d", "o">>, <<<<"action", PyStr(A_Launch)>>, <<"app", PyStr(<<"C", "h", "r", "o", "m", "e">>)>> >>),
     Call(<<"f", "i", "n", "i", "s", "h">>, <<<<"message", PyStr(<<"T", "a", "s", "k", " ", "c", "o", "m", "p", "l", "e", "t", "e", "d", " ", "s", "u", "c", "c", "e", "s", "s", "f", "u", "l", "l", "y">>)>> >>),
     Call(<<"d", "o">>, <<<<"action", PyStr(A_Back)>> >>),
     Call(<<"d", "o">>, <<<<"action", PyStr(A_Wait)>>, <<"duration", PyInt(5)>> >>),
     Call(<<"d", "o">>, <<<<"text", PyStr(<<"H", "i", ",", " ", "(", "y", "o", "u", ")", " ", "=", " ", "[", "1", ",", " ", "2", "]">>)>>, <<"action", PyStr(A_Type)>> >>),
     Call(<<"f", "i", "n", "i", "s", "h">>, <<>>)}

Quotes == {"\"", "'"}

\* what may follow the call in the reply
Tails ==
    {<<>>,
     <<" ", "o", "r", " ", "_", "_", "i", "m", "p", "o", "r", "t", "_", "_", "(", "\"", "o", "s", "\"", ")", ".", "s", "y", "s", "t", "e", "m", "(", "\"", "e", "c", "h", "o", " ", "h", "a", "c", "k", "e", "d", "\"", ")">>,
     <<" ", "o", "r", " ", "_", "_", "i", "m", "p", "o", "r", "t", "_", "_", "(", "'", "o", "s", "'", ")", ".", "s", "y", "s", "t", "e", "m", "(", "'", "e", "c", "h", "o", " ", "h", "a", "c", "k", "e", "d", "'", ")">>,
     <<";", " ", "d", "o", "(", "a", "c", "t", "i", "o", "n", "=", "\"", "H", "o", "m", "e", "\"", ")">>,
     <<",", " ", "a", "p", "p", "=", "\"", "E", "v", "i", "l", "\"", ")">>,
     <<")">>,
     <<"\n">>}

\* replies that are no call
Junk ==
    {<<"i", "n", "v", "a", "l", "i", "d", " ", "f", "o", "r", "m", "a", "t">>, <<>>, <<"T", "a", "p">>, <<"d", "o">>, <<"d", "o", "(">>, <<"f", "i", "n", "i", "s", "h">>, <<"t", "a", "p", "(", "1", "0", "0", ",", " ", "2", "0", "0", ")">>,
     <<"d", "o", "(", "a", "c", "t", "i", "o", "n", "=", "\"", "T", "a", "p", "\"">>, <<"d", "o", "(", "a", "c", "t", "i", "o", "n", "=", "\"", "T", "a", "p", ")">>, <<"d", "o", "(", "a", "c", "t", "i", "o", "n", "=", ")">>, <<"d", "o", " ", "a", "c", "t", "i", "o", "n", "=", "\"", "T", "a", "p", "\"">>}

\* do(...) calls that name no action
Actionless == {<<"d", "o", "(", ")">>, <<"d", "o", "(", "e", "l", "e", "m", "e", "n", "t", "=", "[", "1", ",", " ", "2", "]", ")">>}

ParseInputs ==
    {[text |-> Render(c, q) \o tail, kind |-> "call", call |-> c, quote |-> q,
      tail |-> tail] : c \in Calls, q \in Quotes, tail \in Tails}
        \cup {[text |-> j, kind |-> "junk", call |-> <<>>, quote |-> "", tail |-> <<>>] :
                j \in Junk}
        \cup {[text |-> j, kind |-> "actionless", call |-> <<>>, quote |-> "",
               tail |-> <<>>] : j \in Actionless}

\* result = parse_action(response)
ParseAction ==
    /\ parse_input # <<>>
    /\ parse_output = <<>>
    /\ parse_output' = parse_action(parse_input.text)
    /\ UNCHANGED parse_input
    /\ UNCHANGED outsideParse

InitParse ==
    /\ parse_input \in ParseInputs
    /\ parse_output = <<>>
    /\ ServeIdle
    /\ TaskIdle
    /\ RetryIdle
    /\ TreeIdle
    /\ ValIdle /\ ApiIdle /\ ProbeIdle /\ LoopIdle

NextParse == ParseAction

SpecParse == InitParse /\ [][NextParse]_vars

\* C17: on a reply that starts with a well-formed do(...) or finish(...) call,
\* in either quote style and whatever follows the call, parse_action returns
\* the call kind and the key/value pairs of that call and nothing else; on a
\* reply that is no call it raises
C17_ParseYieldsLeadingCallOnly ==
    parse_output # <<>> =>
        CASE parse_input.kind = "call" ->
                parse_output = [exc |-> "none", d |-> DirectiveOf(parse_input.call)]
          [] parse_input.kind = "junk" -> parse_output.exc = "ValueError"
          [] OTHER -> TRUE

C17_Witness ==
    /\ parse_output # <<>>
    /\ parse_input.kind = "call"
    /\ parse_input.quote = "'"
    /\ Contains(parse_input.tail, <<"_", "_", "i", "m", "p", "o", "r", "t", "_", "_">>)
    /\ parse_output.exc = "none"
    /\ Get(parse_output.d, "action", PyNone) = PyStr(A_Tap)

-----------------------------------------------------------------------------
(* api.py: the two mutating endpoints, POST /task and POST /action, with    *)
(* the calls they hand to the thread pool.  The coroutines run on the event *)
(* loop, one at a time up to their await; agent.run and handler.execute run *)
(* in worker threads of the default executor, several at a time.  Neither   *)
(* endpoint passes a device id: every call works on the default device.     *)

MaxRequests == 3
MaxWorkers == 2

Callers == {"10.0.0.1", "10.0.0.2"}

\* config.api_key: not set, a key, the empty string
ConfiguredKeys == {PyNone, TheKey, PyStr(<<>>)}

\* the X-API-Key header: absent, the key, another key, empty
SentKeys == {PyNone, TheKey, PyStr(<<"k", "2">>), PyStr(<<>>)}

\* request bodies of POST /action: one no whitelist refuses, one the short
\* whitelist refuses, one that is no ActionRequest
ActionBodies ==
    {[NoBody EXCEPT !.action = PyStr(A_Back)], [NoBody EXCEPT !.action = PyStr(A_Home)],
     [NoBody EXCEPT !.action = PyStr(A_Tap)]}

\* the check of check_rate_limit, off by one
LimitReached_Above(client_ip) == Len(CleanedStore(client_ip)[client_ip]) > RateLimit

\* the check of check_rate_limit on the cleaned entries of the client
LimitReached(client_ip) == Len(CleanedStore(client_ip)[client_ip]) >= RateLimit

\* a call handed to loop.run_in_executor: it runs in a worker thread and
\* issues its device commands one after the other; issued tells that it
\* has no further command to issue
Job(endpoint) == [endpoint |-> endpoint, phase |-> "running", issued |-> FALSE]

\* a request is refused before anything is handed to the thread pool
Refuse(code) ==
    /\ status' = code
    /\ UNCHANGED <<jobs, executed>>

\* the request is handed to the thread pool; its response is pending
Offload(endpoint) ==
    /\ jobs' = jobs (+) SetToBag({Job(endpoint)})
    /\ UNCHANGED status

\* a request to POST /task (body = NoBody) or POST /action, up to the await
\* of the endpoint: verify_api_key, check_rate_limit, the body, the endpoint
Receive(endpoint, client_ip, x_api_key, body) ==
    /\ served < MaxRequests
    /\ BagCardinality(jobs) < MaxWorkers
    /\ served' = served + 1
    /\ caller' = client_ip
    /\ IF ~verify_api_key(x_api_key)
       THEN /\ Refuse(401)
            /\ UNCHANGED <<rate_limit_store, admitted>>
       ELSE IF LimitReached(client_ip)
       THEN /\ Refuse(429)
            /\ rate_limit_store' = CleanedStore(client_ip)
            /\ UNCHANGED admitted
       ELSE /\ rate_limit_store' =
                  Put(rate_limit_store, client_ip,
                      Append(CleanedStore(client_ip)[client_ip], now))
            /\ admitted' = Put(admitted, client_ip, Append(Get(admitted, client_ip, <<>>), now))
            /\ IF endpoint = "task"
               THEN /\ Offload(endpoint)
                    /\ UNCHANGED executed
               ELSE IF ~ActionRequestValid(body)
               THEN Refuse(422)
               ELSE IF ~Whitelisted(body.action.cs)
               THEN Refuse(403)
               ELSE /\ Offload(endpoint)
                    /\ executed' = to_dict(body)
    /\ UNCHANGED <<api_key, allowed_actions, now>>
    /\ UNCHANGED outsideServe

PostTaskRequest ==
    \E client_ip \in Callers, x_api_key \in SentKeys :
        Receive("task", client_ip, x_api_key, NoBody)

PostActionRequest ==
    \E client_ip \in Callers, x_api_key \in SentKeys, body \in ActionBodies :
        Receive("action", client_ip, x_api_key, body)

\* job j of the bag becomes job k
Becomes(j, k) == jobs' = (jobs (-) SetToBag({j})) (+) SetToBag({k})

\* a worker thread calls run_adb_command: subprocess.run starts the command;
\* handler.execute issues the command of its directive, agent.run one
\* command per step
CommandStarts(j) ==
    /\ j.phase = "running"
    /\ ~j.issued
    /\ Becomes(j, [j EXCEPT !.phase = "command"])
    /\ UNCHANGED <<admitted, served, caller>>
    /\ UNCHANGED apiVars
    /\ UNCHANGED outsideServe

\* subprocess.run returns
CommandReturns(j) ==
    /\ j.phase = "command"
    /\ Becomes(j, [j EXCEPT !.phase = "running", !.issued = (j.endpoint = "action")])
    /\ UNCHANGED <<admitted, served, caller>>
    /\ UNCHANGED apiVars
    /\ UNCHANGED outsideServe

\* the call returns or raises in its worker thread and the endpoint answers:
\* POST /task always with a TaskResponse, POST /action with 200 or 500
JobReturns(j) ==
    /\ j.phase = "running"
    /\ jobs' = jobs (-) SetToBag({j})
    /\ status' \in IF j.endpoint = "task" THEN {200} ELSE {200, 500}
    /\ UNCHANGED <<admitted, served, caller>>
    /\ UNCHANGED <<api_key, allowed_actions, rate_limit_store, now, executed>>
    /\ UNCHANGED outsideServe

WorkerStartsCommand == \E j \in BagToSet(jobs) : CommandStarts(j)

WorkerEndsCommand == \E j \in BagToSet(jobs) : CommandReturns(j)

WorkerReturns == \E j \in BagToSet(jobs) : JobReturns(j)

InitServe ==
    /\ api_key \in ConfiguredKeys
    /\ allowed_actions = {A_Tap, A_Back, A_Type}
    /\ rate_limit_store = <<>>
    /\ now = 0
    /\ executed = NoDict
    /\ status = 0
    /\ ServeIdle
    /\ TaskIdle
    /\ RetryIdle
    /\ TreeIdle
    /\ ValIdle /\ ProbeIdle /\ LoopIdle /\ ParseIdle

NextServe ==
    \/ PostTaskRequest
    \/ PostActionRequest
    \/ WorkerStartsCommand
    \/ WorkerEndsCommand
    \/ WorkerReturns
    \/ Tick

SpecServe == InitServe /\ [][NextServe]_vars

\* the number of device commands in flight
InFlight == BagCardinality(BagOfAll(LAMBDA j : j.phase, jobs) (-) SetToBag({"running"}))

\* C18: at no time are two device commands for the same device in flight
C18_DeviceCommandsSerialized == InFlight <= 1

\* the requests of client c that check_rate_limit let through and that are
\* younger than the window at instant t
Young(c, t) ==
    {i \in 1..Len(Get(admitted, c, <<>>)) :
        admitted[c][i] <= t /\ t - admitted[c][i] < WindowSeconds}

\* at every instant every client has at most rate_limit such requests
WithinLimit == \A c \in Callers, t \in Moments : Cardinality(Young(c, t)) <= RateLimit

\* the step is a request that is refused with status code: a request that
\* is not refused adds a job and leaves the status alone
RefusedWith(code) == served' = served + 1 /\ status' = code /\ jobs' = jobs

\* the step is a request of client c that carried an accepted key
ReceivedFrom(c) == served' = served + 1 /\ caller' = c /\ ~RefusedWith(401)

\* it is refused with 429 exactly when c has rate_limit young requests, a
\* refused request adds no entry, an admitted one adds one, and the entries
\* of the other clients stay as they are
LimiterStep(c) ==
    /\ RefusedWith(429) <=> (Cardinality(Young(c, now)) >= RateLimit)
    /\ Len(Get(rate_limit_store', c, <<>>)) =
          Cardinality(Young(c, now)) + (IF RefusedWith(429) THEN 0 ELSE 1)
    /\ \A o \in Callers \ {c} :
          /\ Has(rate_limit_store', o) = Has(rate_limit_store, o)
          /\ Get(rate_limit_store', o, <<>>) = Get(rate_limit_store, o, <<>>)

\* C19: the limiter keeps a sliding window of 60 s per client: at every
\* instant a client has at most rate_limit admitted requests younger than
\* 60 s, a request is refused with 429 exactly when the client already has
\* rate_limit of them, a refused request is not counted, and a request of
\* one client leaves the windows of the others alone
C19_SlidingWindowPerClient ==
    /\ WithinLimit
    /\ [][/\ admitted' # admitted => WithinLimit'
          /\ \A c \in Callers : ReceivedFrom(c) => LimiterStep(c)]_vars

C19_Witness ==
    /\ status = 429
    /\ now = WindowSeconds - 1
    /\ \E c \in Callers : Len(Get(admitted, c, <<>>)) = RateLimit

\* the step is a request that carried key x_api_key
ReceivedWith(x_api_key) ==
    /\ served' = served + 1
    /\ \E endpoint \in {"task", "action"}, body \in ActionBodies \cup {NoBody} :
           Receive(endpoint, caller', x_api_key, body)

\* nothing was handed to the thread pool and no entry was made
NoEffect == UNCHANGED <<jobs, executed, rate_limit_store, admitted>>

\* C20: when an API key is configured, a request to POST /task or POST /action
\* that does not carry exactly that key is refused with 401 and has no
\* effect; when none is configured the key check refuses nothing
C20_KeyRequiredWhenConfigured ==
    [][\A x_api_key \in SentKeys :
          ReceivedWith(x_api_key) =>
              /\ (api_key # PyNone /\ x_api_key # api_key) => (RefusedWith(401) /\ NoEffect)
              /\ api_key = PyNone => ~RefusedWith(401)]_vars

\* the step is a POST /action request that passes the key check, the rate
\* limit and the request model and names an action outside the whitelist
RefusedByWhitelist ==
    \E client_ip \in Clients, x_api_key \in HeaderKeys, body \in Bodies :
        /\ body.action.cs \notin allowed_actions
        /\ verify_api_key(x_api_key)
        /\ Len(CleanedStore(client_ip)[client_ip]) < RateLimit
        /\ ActionRequestValid(body)
        /\ ExecuteAction(client_ip, x_api_key, body)

\* C21: a single-action request whose action is not in allowed_actions is
\* refused with 403 and nothing is handed to the handler; every directive
\* handed to the handler names a whitelisted action
C21_OnlyWhitelistedDispatched ==
    /\ executed = NoDict
    /\ [][/\ executed' # NoDict => executed'["action"].cs \in allowed_actions'
          /\ RefusedByWhitelist => (status' = 403 /\ executed' = executed)]_vars

C21_Witness ==
    /\ status = 403
    /\ allowed_actions # VALID_ACTIONS
    /\ executed # NoDict

-----------------------------------------------------------------------------
(* api.py: execute_task around agent.run, the control loop above *)

TaskResponse(success, message, steps_executed) ==
    [success |-> success, message |-> message, steps_executed |-> steps_executed]

\* what run(task) returns once the session is terminal: the message of
\* Finish, or a message synthesized from the status and the last error
FinalMessage ==
    IF session_status = "Finished" THEN [status |-> "Finished", detail |-> "none"]
    ELSE [status |-> session_status, detail |-> last_error]

\* TaskResponse(success=True, ...) whenever agent.run returned
SuccessOfReturn == TRUE

\* agent.run returns and execute_task answers
TaskReturns ==
    /\ session_status \in Terminal
    /\ task_response = <<>>
    /\ task_response' = TaskResponse(SuccessOfReturn, FinalMessage, step_count)
    /\ UNCHANGED outsideTask

\* agent.run raises out of a failed session and execute_task answers from
\* its except branch
TaskRaises ==
    /\ session_status = "Failed"
    /\ task_response = <<>>
    /\ task_response' = TaskResponse(FALSE, FinalMessage, 0)
    /\ UNCHANGED outsideTask

NextTask == NextLoop \/ TaskReturns \/ TaskRaises

SpecTask == InitLoop /\ [][NextTask]_vars

\* C22: the response of a task run carries the terminal status and, when the
\* run did not finish, the last recorded error; a run that stopped with
\* MaxStepsExceeded or Failed is never reported as a success
C22_ResultCarriesTerminalStatus ==
    task_response # <<>> =>
        /\ task_response.message.status = session_status
        /\ session_status \in {"MaxStepsExceeded", "Failed"} =>
              /\ ~task_response.success
              /\ task_response.message.detail = last_error
        /\ session_status = "Finished" => task_response.success


(***************************************************************************)
(* utils.py: the retry decorator.  One call of the wrapped function is     *)
(* followed from the first attempt to the value or exception the wrapper   *)
(* ends with; func is scripted one call at a time.                         *)
(***************************************************************************)

MaxAttemptsBound == 3
MaxDelay == 2
MaxBackoff == 2

\* the exception types func raises in the model
Raisable == {"TimeoutExpired", "OSError", "ValueError"}
\* the tuples of exception types the decorator is given
ExceptionTuples == {{"Exception"}, {"TimeoutExpired", "OSError"}, {"OSError"}}

\* the outcome of the n-th call of func
Returns(n) == [kind |-> "return", type |-> "none", call |-> n]
Raises(type, n) == [kind |-> "raise", type |-> type, call |-> n]
\* raise None
RaiseOfNone == [kind |-> "raise", type |-> "TypeError", call |-> 0]

\* except exceptions as e: every modelled type derives from Exception
Catches(e) == e.type \in exceptions \/ "Exception" \in exceptions

\* if attempt < max_attempts - 1
MoreAttempts == attempt < max_attempts - 1

retryFrame == <<max_attempts, delay, backoff, exceptions>>

\* wrapper is entered: current_delay = delay, last_exception = None
WrapperCalled ==
    /\ wpc = "idle"
    /\ wpc' = "try"
    /\ attempt' = 0
    /\ current_delay' = delay
    /\ last_exception' = <<>>
    /\ UNCHANGED <<retryFrame, calls, slept, returned>>
    /\ UNCHANGED outsideRetry

\* one pass of the for loop up to the sleep: func is called and returns,
\* raises past the except clause, or is caught
FuncCalled(o) ==
    /\ wpc = "try"
    /\ attempt < max_attempts
    /\ calls' = Append(calls, o)
    /\ IF o.kind = "return" \/ ~Catches(o)
       THEN /\ returned' = o
            /\ wpc' = "done"
            /\ UNCHANGED <<attempt, last_exception>>
       ELSE /\ last_exception' = o
            /\ returned' = returned
            /\ IF MoreAttempts
               THEN wpc' = "sleep" /\ attempt' = attempt
               ELSE wpc' = "try" /\ attempt' = attempt + 1
    /\ UNCHANGED <<retryFrame, current_delay, slept>>
    /\ UNCHANGED outsideRetry

FuncReturns == FuncCalled(Returns(Len(calls) + 1))
FuncRaises == \E type \in Raisable : FuncCalled(Raises(type, Len(calls) + 1))

\* time.sleep(current_delay); current_delay *= backoff
Sleeps ==
    /\ wpc = "sleep"
    /\ slept' = Append(slept, current_delay)
    /\ current_delay' = current_delay * backoff
    /\ attempt' = attempt + 1
    /\ wpc' = "try"
    /\ UNCHANGED <<retryFrame, last_exception, calls, returned>>
    /\ UNCHANGED outsideRetry

\* the loop is over: raise last_exception
LoopExhausted ==
    /\ wpc = "try"
    /\ attempt >= max_attempts
    /\ returned' = IF last_exception = <<>> THEN RaiseOfNone ELSE last_exception
    /\ wpc' = "done"
    /\ UNCHANGED <<retryFrame, attempt, current_delay, last_exception, calls, slept>>
    /\ UNCHANGED outsideRetry

InitRetry ==
    /\ ValIdle /\ ApiIdle /\ ProbeIdle /\ LoopIdle /\ ParseIdle /\ ServeIdle /\ TaskIdle /\ TreeIdle
    /\ max_attempts \in 0..MaxAttemptsBound
    /\ delay \in 0..MaxDelay
    /\ backoff \in 1..MaxBackoff
    /\ exceptions \in ExceptionTuples
    /\ wpc = "idle"
    /\ attempt = 0
    /\ current_delay = 0
    /\ last_exception = <<>>
    /\ calls = <<>>
    /\ slept = <<>>
    /\ returned = <<>>

NextRetry == WrapperCalled \/ FuncReturns \/ FuncRaises \/ Sleeps \/ LoopExhausted

SpecRetry == InitRetry /\ [][NextRetry]_vars

RECURSIVE Power(_, _)
Power(b, k) == IF k = 0 THEN 1 ELSE b * Power(b, k - 1)

\* delay, delay * backoff, delay * backoff^2, ... : n waits
Waits(n) == [k \in 1..n |-> delay * Power(backoff, k - 1)]

\* C23: the wrapped function is called at most max_attempts times; the wrapper
\* ends with the outcome of its last call, which is the first call that
\* returned, the first exception outside `exceptions`, or the exception of
\* the max_attempts-th failing call; the waits are delay, delay * backoff,
\* ..., one between consecutive calls and none after the last call
C23_RetryBoundedWithBackoff ==
    /\ Len(calls) <= max_attempts
    /\ \A n \in 1..(Len(calls) - 1) : calls[n].kind = "raise" /\ Catches(calls[n])
    /\ wpc = "done" =>
          /\ Len(calls) >= 1
          /\ returned = calls[Len(calls)]
          /\ (returned.kind = "raise" /\ Catches(returned)) => Len(calls) = max_attempts
          /\ slept = Waits(Len(calls) - 1)

(***************************************************************************)
(* ui_tree.py: the structured view of the screen.  A dump is either        *)
(* malformed or a tree of nodes with string attributes; parse_ui_tree      *)
(* turns it into a UITree, which the searches then read.                   *)
(***************************************************************************)

MaxChildren == 2

\* re.match(r"\[(\d+),(\d+)\]", s): the two numbers and what follows them
NoPoint == [ok |-> FALSE, x |-> 0, y |-> 0, rest |-> <<>>]
MatchPoint(s) ==
    IF s = <<>> \/ s[1] # "[" THEN NoPoint
    ELSE LET s1 == Drop(s, 1)
             n1 == SpanLen(s1, IsDigit)
             s2 == Drop(s1, n1)
         IN  IF n1 = 0 \/ s2 = <<>> \/ s2[1] # "," THEN NoPoint
             ELSE LET s3 == Drop(s2, 1)
                      n2 == SpanLen(s3, IsDigit)
                      s4 == Drop(s3, n2)
                  IN  IF n2 = 0 \/ s4 = <<>> \/ s4[1] # "]" THEN NoPoint
                      ELSE [ok |-> TRUE, x |-> DigitsVal(SubSeq(s1, 1, n1)),
                            y |-> DigitsVal(SubSeq(s3, 1, n2)), rest |-> Drop(s4, 1)]

\* bounds_match = re.match(r"\[(\d+),(\d+)\]\[(\d+),(\d+)\]", bounds_str)
BoundsMatch(bounds_str) == MatchPoint(bounds_str).ok /\ MatchPoint(MatchPoint(bounds_str).rest).ok

ZeroBounds == <<0, 0, 0, 0>>

\* a parse that keeps the first corner only
BoundsOf_FirstCorner(bounds_str) ==
    IF MatchPoint(bounds_str).ok
    THEN <<MatchPoint(bounds_str).x, MatchPoint(bounds_str).y, 0, 0>>
    ELSE ZeroBounds
\* bounds = tuple(int(x) for x in bounds_match.groups()), else (0, 0, 0, 0)
BoundsOf(bounds_str) ==
    IF BoundsMatch(bounds_str)
    THEN LET p == MatchPoint(bounds_str)
             q == MatchPoint(p.rest)
         IN  <<p.x, p.y, q.x, q.y>>
    ELSE ZeroBounds

S_true == <<"t", "r", "u", "e">>
S_false == <<"f", "a", "l", "s", "e">>

\* node.get(name, default) == "true"
Flag(attrs, name, default) == Get(attrs, name, default) = S_true

RECURSIVE _parse_element(_)
RECURSIVE ParseChildren(_)
\* for child in node: element.children.append(_parse_element(child))
ParseChildren(nodes) ==
    IF nodes = <<>> THEN <<>>
    ELSE <<_parse_element(Head(nodes))>> \o ParseChildren(Tail(nodes))
_parse_element(node) ==
    [resource_id |-> Get(node.attrs, "resource-id", <<>>),
     class_name |-> Get(node.attrs, "class", <<>>),
     text |-> Get(node.attrs, "text", <<>>),
     content_desc |-> Get(node.attrs, "content-desc", <<>>),
     bounds |-> BoundsOf(Get(node.attrs, "bounds", <<"[", "0", ",", "0", "]", "[", "0", ",", "0", "]">>)),
     clickable |-> Flag(node.attrs, "clickable", S_false),
     scrollable |-> Flag(node.attrs, "scrollable", S_false),
     focusable |-> Flag(node.attrs, "focusable", S_false),
     enabled |-> Flag(node.attrs, "enabled", S_true),
     selected |-> Flag(node.attrs, "selected", S_false),
     checked |-> Flag(node.attrs, "checked", S_false),
     children |-> ParseChildren(node.children)]

\* UITree.root is None
NoRoot == <<>>
UITree(root) == [root |-> root, screen_width |-> 1080, screen_height |-> 1920]

\* ET.fromstring raises ParseError on a malformed document
parse_ui_tree(xml) == IF xml.wellformed THEN UITree(_parse_element(xml.root)) ELSE UITree(NoRoot)

\* UIElement.center
center(element) ==
    <<(element.bounds[1] + element.bounds[3]) \div 2, (element.bounds[2] + element.bounds[4]) \div 2>>

Min(a, b) == IF a < b THEN a ELSE b

\* UIElement.center_normalized
center_normalized(element) ==
    <<Min(999, (center(element)[1] * 999) \div 1080), Min(999, (center(element)[2] * 999) \div 1920)>>

\* the truth value of an Optional[str] criterion
Given(criterion) == criterion.t = "str" /\ criterion.cs # <<>>

\* a text test that compares the cases as they are
TextMismatch_CaseSensitive(criterion, value) == Given(criterion) /\ ~Contains(value, criterion.cs)
\* if text and text.lower() not in self.text.lower()
TextMismatch(criterion, value) == Given(criterion) /\ ~Contains(Lower(value), Lower(criterion.cs))
\* if resource_id and resource_id not in self.resource_id
PartMismatch(criterion, value) == Given(criterion) /\ ~Contains(value, criterion.cs)

\* UIElement.matches
matches(element, c) ==
    IF TextMismatch(c.text, element.text) THEN FALSE
    ELSE IF PartMismatch(c.resource_id, element.resource_id) THEN FALSE
    ELSE IF PartMismatch(c.class_name, element.class_name) THEN FALSE
    ELSE IF TextMismatch(c.content_desc, element.content_desc) THEN FALSE
    ELSE IF c.clickable # PyNone /\ element.clickable # (c.clickable.n = 1) THEN FALSE
    ELSE TRUE

Criteria(text, resource_id, class_name, content_desc, clickable) ==
    [text |-> text, resource_id |-> resource_id, class_name |-> class_name,
     content_desc |-> content_desc, clickable |-> clickable]

RECURSIVE search(_, _)
RECURSIVE SearchChildren(_, _)
\* for child in element.children: search(child)
SearchChildren(children, c) ==
    IF children = <<>> THEN <<>>
    ELSE search(Head(children), c) \o SearchChildren(Tail(children), c)
\* the inner function of find_all
search(element, c) ==
    (IF matches(element, c) THEN <<element>> ELSE <<>>) \o SearchChildren(element.children, c)

\* UITree.find_all
find_all(t, c) == IF t.root # NoRoot THEN search(t.root, c) ELSE <<>>

\* UITree.find_one: results[0] if results else None
find_one(t, c) == IF find_all(t, c) # <<>> THEN find_all(t, c)[1] ELSE PyNone

\* an exact search that looks at the text only
TextHit_TextOnly(element, text, exact) ==
    IF exact THEN element.text = text
    ELSE Contains(Lower(element.text), Lower(text))
\* the test of find_by_text on one element
TextHit(element, text, exact) ==
    IF exact THEN element.text = text \/ element.content_desc = text
    ELSE \/ Contains(Lower(element.text), Lower(text))
         \/ Contains(Lower(element.content_desc), Lower(text))

RECURSIVE search_text(_, _, _)
RECURSIVE SearchTextChildren(_, _, _)
SearchTextChildren(children, text, exact) ==
    IF children = <<>> THEN <<>>
    ELSE search_text(Head(children), text, exact) \o SearchTextChildren(Tail(children), text, exact)
\* the inner function of find_by_text
search_text(element, text, exact) ==
    (IF TextHit(element, text, exact) THEN <<element>> ELSE <<>>)
        \o SearchTextChildren(element.children, text, exact)

\* UITree.find_by_text
find_by_text(t, text, exact) == IF t.root # NoRoot THEN search_text(t.root, text, exact) ELSE <<>>

\* UITree.get_clickable_elements
get_clickable_elements(t) == find_all(t, Criteria(PyNone, PyNone, PyNone, PyNone, PyBool(TRUE)))

\* the nodes of the modelled dumps
Node(attrs, children) == [attrs |-> attrs, children |-> children]
SubmitButton ==
    Node(("class" :> <<"a", "n", "d", "r", "o", "i", "d", ".", "w", "i", "d", "g", "e", "t", ".", "B", "u", "t", "t", "o", "n">>) @@ ("text" :> <<"S", "u", "b", "m", "i", "t">>)
         @@ ("bounds" :> <<"[", "1", "0", "0", ",", "2", "0", "0", "]", "[", "3", "0", "0", ",", "2", "5", "0", "]">>) @@ ("clickable" :> S_true), <<>>)
CancelButton ==
    Node(("text" :> <<"C", "a", "n", "c", "e", "l">>) @@ ("bounds" :> <<"[", "0", ",", "0", "]", "[", "1", "0", "0", ",", "5", "0", "]">>) @@ ("clickable" :> S_true)
         @@ ("resource-id" :> <<"a", "p", "p", ":", "i", "d", "/", "c", "a", "n", "c", "e", "l">>), <<>>)
\* no bounds attribute
IconNoBounds ==
    Node(("class" :> <<"a", "n", "d", "r", "o", "i", "d", ".", "w", "i", "d", "g", "e", "t", ".", "I", "m", "a", "g", "e", "V", "i", "e", "w">>) @@ ("content-desc" :> <<"S", "U", "B", "M", "I", "T", " ", "f", "o", "r", "m">>)
         @@ ("resource-id" :> <<"a", "p", "p", ":", "i", "d", "/", "S", "u", "b", "m", "i", "t">>) @@ ("enabled" :> S_false), <<>>)
\* a bounds attribute that stops after the first corner
LabelCutBounds ==
    Node(("text" :> <<"s", "u", "b", "m", "i", "t", "t", "e", "d">>) @@ ("bounds" :> <<"[", "1", "0", ",", "2", "0", "]", "[", "3", "0">>) @@ ("clickable" :> S_false)
         @@ ("content-desc" :> <<"S", "u", "b", "m", "i", "t">>), <<>>)
\* a bounds attribute with a negative coordinate, on a scrolled view
FarButton ==
    Node(("class" :> <<"a", "n", "d", "r", "o", "i", "d", ".", "w", "i", "d", "g", "e", "t", ".", "B", "u", "t", "t", "o", "n">>) @@ ("text" :> <<"N", "e", "x", "t">>)
         @@ ("bounds" :> <<"[", "-", "4", "0", ",", "0", "]", "[", "1", "4", "0", "0", ",", "3", "0", "0", "0", "]">>) @@ ("clickable" :> S_true), <<>>)
\* an element in the lower right corner of a 1440x3200 screen
CornerButton ==
    Node(("class" :> <<"a", "n", "d", "r", "o", "i", "d", ".", "w", "i", "d", "g", "e", "t", ".", "B", "u", "t", "t", "o", "n">>) @@ ("text" :> <<"O", "K">>)
         @@ ("bounds" :> <<"[", "1", "0", "0", "0", ",", "2", "4", "0", "0", "]", "[", "1", "4", "4", "0", ",", "3", "2", "0", "0", "]">>) @@ ("clickable" :> S_true)
         @@ ("scrollable" :> S_true), <<>>)
Leaves == {SubmitButton, CancelButton, IconNoBounds, LabelCutBounds, FarButton, CornerButton}
\* a layout around one leaf
Layout(leaf) ==
    Node(("class" :> <<"a", "n", "d", "r", "o", "i", "d", ".", "w", "i", "d", "g", "e", "t", ".", "F", "r", "a", "m", "e", "L", "a", "y", "o", "u", "t">>) @@ ("bounds" :> <<"[", "0", ",", "0", "]", "[", "1", "0", "8", "0", ",", "1", "9", "2", "0", "]">>)
         @@ ("resource-id" :> <<"a", "p", "p", ":", "i", "d", "/", "s", "u", "b", "m", "i", "t", "_", "r", "o", "w">>), <<leaf>>)
Nodes == Leaves \cup {Layout(SubmitButton), Layout(LabelCutBounds)}

\* <hierarchy rotation="0"> around up to MaxChildren nodes, and a dump cut short
Hierarchy(children) == [wellformed |-> TRUE, root |-> Node(("rotation" :> <<"0">>), children)]
MalformedDump == [wellformed |-> FALSE, root |-> Node(<<>>, <<>>)]
Dumps == {Hierarchy(children) : children \in SeqsUpTo(Nodes, MaxChildren)} \cup {MalformedDump}

\* the criteria the searches are called with
TextCriteria == {PyNone, PyStr(<<>>), PyStr(<<"s", "u", "b", "m", "i", "t">>), PyStr(<<"S", "u", "b", "m", "i", "t">>)}
IdCriteria == {PyNone, PyStr(<<"S", "u", "b", "m", "i", "t">>)}
ClassCriteria == {PyNone, PyStr(<<"B", "u", "t", "t", "o", "n">>)}
DescCriteria == {PyNone, PyStr(<<"s", "u", "b", "m", "i", "t">>)}
ClickableCriteria == {PyNone, PyBool(TRUE), PyBool(FALSE)}
Texts == {<<>>, <<"s", "u", "b", "m", "i", "t">>, <<"S", "u", "b", "m", "i", "t">>, <<"N", "e", "x", "t">>}

\* tree = parse_ui_tree(xml_content)
ParseUiTree ==
    /\ tree = <<>>
    /\ tree' = parse_ui_tree(xml_content)
    /\ UNCHANGED <<xml_content, query, found>>
    /\ UNCHANGED outsideTree

\* the positions of the elements under an element: the child indices that
\* lead to each of them
RECURSIVE Paths(_)
Paths(element) ==
    {<<>>} \cup UNION {{<<i>> \o p : p \in Paths(element.children[i])} :
                          i \in 1..Len(element.children)}

RECURSIVE ElementAt(_, _)
ElementAt(element, path) ==
    IF path = <<>> THEN element ELSE ElementAt(element.children[Head(path)], Tail(path))

\* the resolutions a caller declares on a tree
Resolutions == {<<1080, 1920>>, <<1440, 3200>>}

\* tree.screen_width, tree.screen_height = w, h
DeclareResolution ==
    /\ tree # <<>>
    /\ query = <<>>
    /\ \E r \in Resolutions :
          /\ <<tree.screen_width, tree.screen_height>> # r
          /\ tree' = [tree EXCEPT !.screen_width = r[1], !.screen_height = r[2]]
    /\ UNCHANGED <<xml_content, query, found>>
    /\ UNCHANGED outsideTree

\* the caller is done with the result of a search
ResultDropped ==
    /\ query # <<>>
    /\ query' = <<>>
    /\ found' = <<>>
    /\ UNCHANGED <<xml_content, tree>>
    /\ UNCHANGED outsideTree

Searched(q, results) ==
    /\ tree # <<>>
    /\ query = <<>>
    /\ query' = q
    /\ found' = results
    /\ UNCHANGED <<xml_content, tree>>
    /\ UNCHANGED outsideTree

FindAll ==
    \E text \in TextCriteria, resource_id \in IdCriteria, class_name \in ClassCriteria,
       content_desc \in DescCriteria, clickable \in ClickableCriteria :
        LET c == Criteria(text, resource_id, class_name, content_desc, clickable)
        IN  Searched([op |-> "find_all", c |-> c], find_all(tree, c))

FindOne ==
    \E text \in TextCriteria, resource_id \in IdCriteria, class_name \in ClassCriteria,
       content_desc \in DescCriteria, clickable \in ClickableCriteria :
        LET c == Criteria(text, resource_id, class_name, content_desc, clickable)
        IN  Searched([op |-> "find_one", c |-> c], find_one(tree, c))

FindByText ==
    \E text \in Texts, exact \in BOOLEAN :
        Searched([op |-> "find_by_text", text |-> text, exact |-> exact],
                 find_by_text(tree, text, exact))

GetClickableElements ==
    Searched([op |-> "get_clickable_elements"], get_clickable_elements(tree))

\* element.center_normalized for an element of the tree
ReadCenterNormalized ==
    /\ tree # <<>>
    /\ tree.root # NoRoot
    /\ \E path \in Paths(tree.root) :
          Searched([op |-> "center_normalized", path |-> path],
                   center_normalized(ElementAt(tree.root, path)))

InitTree ==
    /\ ValIdle /\ ApiIdle /\ ProbeIdle /\ LoopIdle /\ ParseIdle /\ ServeIdle /\ TaskIdle /\ RetryIdle
    /\ xml_content \in Dumps
    /\ tree = <<>>
    /\ query = <<>>
    /\ found = <<>>

NextTree ==
    \/ ParseUiTree \/ DeclareResolution \/ FindAll \/ FindOne \/ FindByText
    \/ GetClickableElements \/ ReadCenterNormalized \/ ResultDropped

SpecTree == InitTree /\ [][NextTree]_vars

\* parse_ui_tree has returned
TreeParsed == tree # <<>>

\* every attribute but bounds is carried over from the node
OtherAttributesParsed(node, element) ==
    /\ element.resource_id = Get(node.attrs, "resource-id", <<>>)
    /\ element.class_name = Get(node.attrs, "class", <<>>)
    /\ element.text = Get(node.attrs, "text", <<>>)
    /\ element.content_desc = Get(node.attrs, "content-desc", <<>>)
    /\ element.clickable = (Has(node.attrs, "clickable") /\ node.attrs["clickable"] = S_true)
    /\ element.scrollable = (Has(node.attrs, "scrollable") /\ node.attrs["scrollable"] = S_true)
    /\ element.enabled = (Has(node.attrs, "enabled") => node.attrs["enabled"] = S_true)
    /\ Len(element.children) = Len(node.children)

\* the bounds attribute is missing or is not matched by the bounds pattern
BoundsUnusable(node) == ~Has(node.attrs, "bounds") \/ ~BoundsMatch(node.attrs["bounds"])

\* what the searches return on a tree with no root
EmptyAnswer == IF query.op = "find_one" THEN PyNone ELSE <<>>

\* C24: parse_ui_tree contains failures: a node whose bounds attribute is
\* missing or is not matched as [left,top][right,bottom] gets bounds
\* (0,0,0,0) while the node, its other attributes and every other node of the
\* dump are still parsed at their places; a malformed dump yields a tree with
\* no root, on which find_all, find_by_text and get_clickable_elements
\* return the empty sequence and find_one returns None
C24_ParseContainsFailures ==
    TreeParsed =>
        IF xml_content.wellformed
        THEN /\ tree.root # NoRoot
             /\ Paths(tree.root) = Paths(xml_content.root)
             /\ \A path \in Paths(xml_content.root) :
                   LET node == ElementAt(xml_content.root, path)
                       element == ElementAt(tree.root, path)
                   IN  /\ OtherAttributesParsed(node, element)
                       /\ BoundsUnusable(node) => element.bounds = ZeroBounds
        ELSE /\ tree.root = NoRoot
             /\ query # <<>> => found = EmptyAnswer

C24_Witness ==
    /\ TreeParsed
    /\ xml_content = Hierarchy(<<Layout(LabelCutBounds), SubmitButton>>)
    /\ ElementAt(tree.root, <<1, 1>>).bounds = ZeroBounds
    /\ ElementAt(tree.root, <<1, 1>>).text = <<"s", "u", "b", "m", "i", "t", "t", "e", "d">>
    /\ ElementAt(tree.root, <<2>>).bounds = <<100, 200, 300, 250>>

\* path p comes before path q in pre-order: a parent before its children,
\* children in document order
Before(p, q) ==
    /\ p # q
    /\ \/ Len(p) < Len(q) /\ SubSeq(q, 1, Len(p)) = p
       \/ \E i \in 1..Min(Len(p), Len(q)) :
             p[i] < q[i] /\ \A j \in 1..(i - 1) : p[j] = q[j]

\* the elements under root that satisfy Hit, each once, in pre-order
InPreOrder(root, Hit(_)) ==
    IF root = NoRoot THEN <<>>
    ELSE LET hits == {p \in Paths(root) : Hit(ElementAt(root, p))}
             Rank(p) == Cardinality({q \in hits : Before(q, p)}) + 1
         IN  [i \in 1..Cardinality(hits) |->
                 ElementAt(root, CHOOSE p \in hits : Rank(p) = i)]

\* an element satisfies every criterion that is given
Satisfies(element, c) ==
    /\ c.text # PyNone => Contains(Lower(element.text), Lower(c.text.cs))
    /\ c.content_desc # PyNone => Contains(Lower(element.content_desc), Lower(c.content_desc.cs))
    /\ c.resource_id # PyNone => Contains(element.resource_id, c.resource_id.cs)
    /\ c.class_name # PyNone => Contains(element.class_name, c.class_name.cs)
    /\ c.clickable # PyNone => element.clickable = (c.clickable = PyBool(TRUE))

OnlyClickable == Criteria(PyNone, PyNone, PyNone, PyNone, PyBool(TRUE))

\* C25: find_all returns exactly the elements that satisfy all given criteria
\* (text and content_desc by case-insensitive substring, resource_id and
\* class_name by case-sensitive substring, clickable by equality), each once,
\* in pre-order; find_one returns the first of them or None;
\* get_clickable_elements equals find_all(clickable=True); no search changes
\* the tree
C25_FindAllExactInPreOrder ==
    [][(query' # <<>> /\ query' # query) =>
          /\ tree' = tree
          /\ LET Hit(element) == Satisfies(element, query'.c)
                 Clickable(element) == Satisfies(element, OnlyClickable)
             IN  /\ query'.op = "find_all" => found' = InPreOrder(tree.root, Hit)
                 /\ query'.op = "find_one" =>
                       found' = IF InPreOrder(tree.root, Hit) = <<>> THEN PyNone
                                ELSE InPreOrder(tree.root, Hit)[1]
                 /\ query'.op = "get_clickable_elements" =>
                       found' = InPreOrder(tree.root, Clickable)]_vars

C25_Witness ==
    /\ xml_content = Hierarchy(<<Layout(SubmitButton), LabelCutBounds>>)
    /\ query # <<>>
    /\ query.op = "find_all"
    /\ query.c = Criteria(PyStr(<<"s", "u", "b", "m", "i", "t">>), PyNone, PyNone, PyNone, PyNone)
    /\ Len(found) = 2
    /\ found[1] = ElementAt(tree.root, <<1, 1>>)
    /\ found[2] = ElementAt(tree.root, <<2>>)

\* the text or the content_desc of the element matches
TextMatches(element, text, exact) ==
    IF exact THEN text \in {element.text, element.content_desc}
    ELSE \E value \in {element.text, element.content_desc} : Contains(Lower(value), Lower(text))

\* the dump with the single node Submit
SubmitDump == Hierarchy(<<SubmitButton>>)

\* C26: find_by_text(text, exact) returns, in pre-order, exactly the elements
\* whose text or content_desc equals the argument (exact) or holds it as a
\* case-insensitive substring (not exact); on the dump with the single node
\* Submit, find_by_text("Submit") returns that one element, whose center for
\* bounds [100,200][300,250] is (200,225)
C26_FindByTextExactOrSubstring ==
    (query # <<>> /\ query.op = "find_by_text") =>
        LET Hit(element) == TextMatches(element, query.text, query.exact)
        IN  /\ found = InPreOrder(tree.root, Hit)
            /\ (xml_content = SubmitDump /\ query.text = <<"S", "u", "b", "m", "i", "t">> /\ ~query.exact) =>
                  /\ Len(found) = 1
                  /\ found[1].text = <<"S", "u", "b", "m", "i", "t">>
                  /\ center(found[1]) = <<200, 225>>

C26_Witness ==
    /\ xml_content = SubmitDump
    /\ query # <<>>
    /\ query.op = "find_by_text"
    /\ query.text = <<"S", "u", "b", "m", "i", "t">>
    /\ ~query.exact
    /\ Len(found) = 1

\* the pixel center on the [0,999] grid of a screen of the given size
OnGrid(pixel, size) == Min(999, (pixel * 999) \div size)

\* C27: center_normalized maps the pixel center of a parsed element into the
\* [0,999] grid using the resolution the tree declares: both components are
\* in [0,999] and follow screen_width and screen_height
C27_NormalizedByDeclaredResolution ==
    (query # <<>> /\ query.op = "center_normalized") =>
        LET element == ElementAt(tree.root, query.path)
        IN  /\ found[1] \in 0..999
            /\ found[2] \in 0..999
            /\ found = <<OnGrid(center(element)[1], tree.screen_width),
                         OnGrid(center(element)[2], tree.screen_height)>>

\* a Wait directive whose duration stands for more than 60 seconds and whose
\* other fields are well formed
LongWaitDirective(d) ==
    /\ KnownDo(d)
    /\ d["action"].cs = A_Wait
    /\ Has(d, "duration")
    /\ ClaimedDurationNumber(StrOf(d["duration"])).ok
    /\ FloatGreater(ClaimedDurationNumber(StrOf(d["duration"])), LongWait)
    /\ \A f \in CoordFields : Has(d, f) => WellFormedCoord(d[f])

FinishDirective(d) == Has(d, "_metadata") /\ d["_metadata"] = M_finish

\* C28: a ValidationResult returned by validate_action has is_valid = True
\* exactly when its errors are empty; warnings never make it invalid: a
\* finish directive is valid with or without a message, with a warning
\* exactly when the message is missing, and a Wait longer than 60 seconds is
\* valid with a warning
C28_ValidIffNoErrors ==
    (Validated /\ result.exc = "none") =>
        /\ result.is_valid <=> result.errors = <<>>
        /\ FinishDirective(Subject) =>
              /\ result.is_valid
              /\ result.warnings # <<>> <=> ~Has(Subject, "message")
        /\ LongWaitDirective(Subject) => result.is_valid /\ result.warnings # <<>>

C28_Witness ==
    /\ Validated
    /\ result.exc = "none"
    /\ LongWaitDirective(Subject)
    /\ Subject["duration"] = PyStr(<<"9", "0", " ", "s", "e", "c", "o", "n", "d", "s">>)
    /\ result.is_valid
    /\ Len(result.warnings) = 1

\* the step constructs an ActionRequest from the body
Constructs(body) ==
    \E client_ip \in Clients, x_api_key \in HeaderKeys :
        /\ ActionRequestValid(body)
        /\ verify_api_key(x_api_key)
        /\ Len(CleanedStore(client_ip)[client_ip]) < RateLimit
        /\ ExecuteAction(client_ip, x_api_key, body)

\* C29: the two validators agree on required fields: an ActionRequest is
\* constructed only if every field validate_action requires for its action is
\* present (duration for Wait included), and validate_action reports no error
\* on the to_dict() of a constructed request
C29_ValidatorsAgreeOnRequiredFields ==
    [][\A body \in Bodies :
          Constructs(body) =>
              /\ \A f \in ClaimedRequirements(body.action.cs) : body[f] # PyNone
              /\ validate_action(to_dict(body)).exc = "none"
              /\ validate_action(to_dict(body)).errors = <<>>]_vars

\* C30: the battery_level of a DeviceState returned by check_device_state is
\* None or an integer in [0,100], and it is None when the device is not
\* connected
C30_BatteryLevelNoneOrPercent ==
    ppc = "done" =>
        /\ \/ state.battery_level = PyNone
           \/ state.battery_level.t = "int" /\ state.battery_level.n \in 0..100
        /\ ~state.is_connected => state.battery_level = PyNone

====
